---- MODULE Spec2Model ----
(***************************************************************************)
(* qutim configuration store (core/libqutim/config.cpp): ConfigAtom trees, *)
(* ConfigSource and its cache, ConfigLevel navigation, the Config cursor   *)
(* operations and the deferred save through PostConfigSaver.               *)
(*                                                                         *)
(* Conventions.                                                            *)
(*  - A QVariant is a tree value: [t |-> "Null"] (invalid variant),        *)
(*    [t |-> "Value", v |-> x], [t |-> "Map", m |-> f], [t |-> "List",     *)
(*    l |-> s].  A scalar payload is an integer; a negative payload stands *)
(*    for the null value of a type with isNull() (a null QString).         *)
(*  - ConfigAtom objects live in a heap (a sequence; the pointer is the    *)
(*    index, 0 is the null Ptr), so that sharing between levels, cursors   *)
(*    and sources is by identity as with QSharedPointer.                   *)
(*  - A failed Q_ASSERT, a null-pointer dereference and first() of an      *)
(*    empty QList abort the operation: ok = FALSE, the process has failed. *)
(*  - A full name "g//k" is the sequence of its '/'-separated segments,    *)
(*    <<"g", "", "k">>; the empty string is <<"">>.                        *)
(***************************************************************************)
EXTENDS Integers, Sequences, FiniteSets, TLC

-----------------------------------------------------------------------------
(* Tree values (QVariant)                                                  *)

EmptyMap == [k \in {} |-> 0]

VNull == [t |-> "Null"]

VValue(x) == [t |-> "Value", v |-> x]

VMap(f) == [t |-> "Map", m |-> f]

VList(s) == [t |-> "List", l |-> s]

\* QMap iterates its keys in sorted order
KeyOrder == <<"", "a", "b", "g", "h", "k", "l", "m", "n", "x", "y">>

SortedKeys(S) == SelectSeq(KeyOrder, LAMBDA k : k \in S)

-----------------------------------------------------------------------------
(* ConfigAtom                                                              *)

NewAtom(readOnly) ==
    [type |-> "Null", readOnly |-> readOnly, map |-> EmptyMap, list |-> <<>>,
     value |-> 0]

\* Ptr::create(readOnly): a fresh Null atom at the end of the heap
Alloc(h, readOnly) == [h |-> Append(h, NewAtom(readOnly)), r |-> Len(h) + 1]

\* clear(): destroy the payload, the type becomes Null
AtomClear(a) == [a EXCEPT !.type = "Null", !.map = EmptyMap, !.list = <<>>, !.value = 0]

ensureMap(a) == IF a.type = "Map" THEN a ELSE [AtomClear(a) EXCEPT !.type = "Map"]

ensureList(a) == IF a.type = "List" THEN a ELSE [AtomClear(a) EXCEPT !.type = "List"]

ensureValue(a) == IF a.type = "Value" THEN a ELSE [AtomClear(a) EXCEPT !.type = "Value"]

RECURSIVE fromVariant(_, _, _)
RECURSIVE fromVariantMap(_, _, _, _, _)
RECURSIVE fromVariantList(_, _, _, _, _)

\* the Map case: map.insert(it.key(), fromVariant(it.value(), readOnly)) per key
fromVariantMap(h, parent, keys, input, readOnly) ==
    IF keys = <<>> THEN h
    ELSE LET c == fromVariant(h, input[Head(keys)], readOnly)
             h2 == [c.h EXCEPT ![parent].map = (Head(keys) :> c.r) @@ @]
         IN fromVariantMap(h2, parent, Tail(keys), input, readOnly)

\* the List case: list.append(fromVariant(value, readOnly)) per element
fromVariantList(h, parent, i, input, readOnly) ==
    IF i > Len(input) THEN h
    ELSE LET c == fromVariant(h, input[i], readOnly)
             h2 == [c.h EXCEPT ![parent].list = Append(@, c.r)]
         IN fromVariantList(h2, parent, i + 1, input, readOnly)

fromVariant(h, variant, readOnly) ==
    LET a == Alloc(h, readOnly)
    IN CASE variant.t = "Null" -> a
         [] variant.t = "Map" ->
              [h |-> fromVariantMap([a.h EXCEPT ![a.r] = ensureMap(@)], a.r,
                                    SortedKeys(DOMAIN variant.m), variant.m, readOnly),
               r |-> a.r]
         [] variant.t = "List" ->
              [h |-> fromVariantList([a.h EXCEPT ![a.r] = ensureList(@)], a.r, 1,
                                     variant.l, readOnly),
               r |-> a.r]
         [] OTHER ->
              [h |-> [a.h EXCEPT ![a.r] = [ensureValue(@) EXCEPT !.value = variant.v]],
               r |-> a.r]

RECURSIVE toVariant(_, _)

toVariant(h, n) ==
    CASE h[n].type = "Map" ->
           VMap([k \in DOMAIN h[n].map |-> toVariant(h, h[n].map[k])])
      [] h[n].type = "List" ->
           VList([i \in 1..Len(h[n].list) |-> toVariant(h, h[n].list[i])])
      [] h[n].type = "Value" -> VValue(h[n].value)
      [] OTHER -> VNull

\* child(const QString &name)
AtomChildName(h, n, name) ==
    IF h[n].readOnly /\ h[n].type # "Map" THEN [h |-> h, r |-> 0, ok |-> FALSE]
    ELSE LET h1 == [h EXCEPT ![n] = ensureMap(@)]
         IN IF name \in DOMAIN h1[n].map
            THEN [h |-> h1, r |-> h1[n].map[name], ok |-> TRUE]
            ELSE IF h1[n].readOnly THEN [h |-> h1, r |-> 0, ok |-> TRUE]
            ELSE LET a == Alloc(h1, h1[n].readOnly)
                 IN [h |-> [a.h EXCEPT ![n].map = (name :> a.r) @@ @],
                     r |-> a.r, ok |-> TRUE]

RECURSIVE AtomGrow(_, _, _)

\* while (list.size() <= index) list.append(Ptr::create(m_readOnly))
AtomGrow(h, n, index) ==
    IF Len(h[n].list) > index THEN h
    ELSE LET a == Alloc(h, h[n].readOnly)
         IN AtomGrow([a.h EXCEPT ![n].list = Append(@, a.r)], n, index)

\* child(int index), index counted from 0
AtomChildIndex(h, n, index) ==
    IF h[n].readOnly /\ h[n].type # "List" THEN [h |-> h, r |-> 0, ok |-> FALSE]
    ELSE LET h1 == [h EXCEPT ![n] = ensureList(@)]
         IN IF h1[n].readOnly /\ Len(h1[n].list) <= index
            THEN [h |-> h1, r |-> 0, ok |-> TRUE]
            ELSE LET h2 == AtomGrow(h1, n, index)
                 IN [h |-> h2, r |-> h2[n].list[index + 1], ok |-> TRUE]

\* arraySize()
AtomArraySize(h, n) ==
    IF h[n].type # "List" THEN [r |-> 0, ok |-> FALSE]
    ELSE [r |-> Len(h[n].list), ok |-> TRUE]

\* a removal that drops the last element instead (sensitivity variant)
RemoveLast(s, i) == SubSeq(s, 1, Len(s) - 1)

RemoveAt(s, i) == [j \in 1..(Len(s) - 1) |-> IF j < i THEN s[j] ELSE s[j + 1]]

\* remove(int index)
AtomRemoveIndex(h, n, index) ==
    IF h[n].type # "List" THEN [h |-> h, r |-> FALSE, ok |-> FALSE]
    ELSE IF Len(h[n].list) <= index THEN [h |-> h, r |-> FALSE, ok |-> TRUE]
    ELSE [h |-> [h EXCEPT ![n].list = RemoveAt(@, index + 1)], r |-> TRUE, ok |-> TRUE]

\* remove(const QString &name)
AtomRemoveName(h, n, name) ==
    IF h[n].type # "Map" THEN [h |-> h, r |-> FALSE, ok |-> FALSE]
    ELSE IF name \notin DOMAIN h[n].map THEN [h |-> h, r |-> FALSE, ok |-> TRUE]
    ELSE [h |-> [h EXCEPT ![n].map = [k \in (DOMAIN @) \ {name} |-> @[k]]],
          r |-> TRUE, ok |-> TRUE]

\* replace(name, value): dirty iff the key is new or its tree value differs
AtomReplace(h, n, name, value) ==
    IF h[n].type # "Map" THEN [h |-> h, r |-> FALSE, ok |-> FALSE]
    ELSE IF name \notin DOMAIN h[n].map
            \/ toVariant(h, h[n].map[name]) # toVariant(h, value)
    THEN [h |-> [h EXCEPT ![n].map = (name :> value) @@ @], r |-> TRUE, ok |-> TRUE]
    ELSE [h |-> h, r |-> FALSE, ok |-> TRUE]

\* convert(Type type)
AtomConvert(h, n, type) ==
    IF h[n].type = type THEN h
    ELSE CASE type = "Map" -> [h EXCEPT ![n] = ensureMap(@)]
           [] type = "List" -> [h EXCEPT ![n] = ensureList(@)]
           [] type = "Value" -> [h EXCEPT ![n] = ensureValue(@)]
           [] OTHER -> [h EXCEPT ![n] = AtomClear(@)]

-----------------------------------------------------------------------------
(* ConfigLevel: atoms (heap pointers) and the arrayElement flag.           *)
(* A navigation step takes and returns x = [h, atoms, ok]: the heap, the   *)
(* atoms of the level and whether every assertion held so far.             *)

NewLevel(atoms) == [atoms |-> atoms, arrayElement |-> FALSE]

\* the callback of ConfigLevel::child(int)
ChildIndexCallback(h, atom, isReadOnly, index) ==
    IF isReadOnly /\ h[atom].type # "List" THEN [h |-> h, r |-> 0, ok |-> TRUE]
    ELSE AtomChildIndex(h, atom, index)

\* the callback of ConfigLevel::child(const QString &)
ChildNameCallback(h, atom, isReadOnly, name) ==
    IF isReadOnly /\ h[atom].type # "Map" THEN [h |-> h, r |-> 0, ok |-> TRUE]
    ELSE AtomChildName(h, atom, name)

\* the callback of ConfigLevel::convert
ConvertCallback(h, atom, isReadOnly, type) ==
    IF isReadOnly /\ h[atom].type # type THEN [h |-> h, r |-> 0, ok |-> TRUE]
    ELSE [h |-> AtomConvert(h, atom, type), r |-> atom, ok |-> TRUE]

Callback(kind, h, atom, isReadOnly, arg) ==
    CASE kind = "index" -> ChildIndexCallback(h, atom, isReadOnly, arg)
      [] kind = "name" -> ChildNameCallback(h, atom, isReadOnly, arg)
      [] OTHER -> ConvertCallback(h, atom, isReadOnly, arg)

\* isReadOnly = atom->isReadOnly() || !first
MapIsReadOnly(h, atom, first) == h[atom].readOnly \/ ~first

RECURSIVE LevelMapFrom(_, _, _, _, _, _)
RECURSIVE LevelMapNext(_, _, _, _, _, _)

\* if (auto result = callback(atom, isReadOnly)) results << result;
LevelMapNext(cb, atoms, i, kind, arg, results) ==
    IF ~cb.ok THEN [h |-> cb.h, atoms |-> results, ok |-> FALSE]
    ELSE LevelMapFrom(cb.h, atoms, i + 1, kind, arg,
                      IF cb.r # 0 THEN Append(results, cb.r) ELSE results)

LevelMapFrom(h, atoms, i, kind, arg, results) ==
    IF i > Len(atoms) THEN [h |-> h, atoms |-> results, ok |-> TRUE]
    ELSE LevelMapNext(Callback(kind, h, atoms[i], MapIsReadOnly(h, atoms[i], i = 1), arg),
                      atoms, i, kind, arg, results)

\* ConfigLevel::map(callback): a new level of the non-null results
LevelMap(x, kind, arg) ==
    IF ~x.ok THEN x ELSE LevelMapFrom(x.h, x.atoms, 1, kind, arg, <<>>)

LevelChildIndex(x, index) == LevelMap(x, "index", index)

LevelChildName(x, name) == LevelMap(x, "name", name)

LevelConvert(x, type) == LevelMap(x, "convert", type)

RECURSIVE LevelChildNamesFrom(_, _, _)

LevelChildNamesFrom(x, names, i) ==
    IF ~x.ok \/ i > Len(names) THEN x
    ELSE LevelChildNamesFrom(LevelChildName(x, names[i]), names, i + 1)

\* ConfigLevel::child(const QList<QString> &names): Q_ASSERT(!names.isEmpty())
LevelChildNames(x, names) ==
    IF names = <<>> THEN [x EXCEPT !.ok = FALSE] ELSE LevelChildNamesFrom(x, names, 1)

-----------------------------------------------------------------------------
(* The world w: every object of the process and the files on disk.         *)
(*   heap     ConfigAtom objects                                           *)
(*   sources  ConfigSource objects (alive = not yet destroyed)             *)
(*   cursors  ConfigPrivate objects; held = a Config handle refers to it   *)
(*   files    the disk: exists, writable, mtime, content                   *)
(*   cache    ConfigSourceHash::m_hash, file name -> source (0 = no entry) *)
(*   queue    posted PostConfigSaveEvents, oldest first                    *)
(*   saved    the backend.save calls so far, as source ids                 *)
(*   loaded   the backend.load calls so far, as file names                 *)
(*   failed   an operation aborted                                         *)
(*   res      the value returned by the last operation                     *)
(* Every operation passes a failed world on unchanged.                     *)

Fail(w) == [w EXCEPT !.failed = TRUE]

Levels(w, c) == w.cursors[c].levels

\* ConfigPrivate::current(): levels.first()
Current(w, c) == Levels(w, c)[1]

AtLevel(w, c) == [h |-> w.heap, atoms |-> Current(w, c).atoms, ok |-> TRUE]

\* d->levels.prepend(level)
Push(w, c, x, arrayElement) ==
    IF ~x.ok THEN Fail(w)
    ELSE [w EXCEPT !.heap = x.h,
                   !.cursors[c].levels =
                       <<[atoms |-> x.atoms, arrayElement |-> arrayElement]>> \o @]

\* a takeFirst that leaves the stack as it is (sensitivity variant)
PopNothing(w, c) == w

\* d->levels.takeFirst()
Pop(w, c) == [w EXCEPT !.cursors[c].levels = Tail(@)]

\* a full name is the sequence of its segments; "" is <<"">>
IsEmptyName(fullName) == fullName = <<"">>

\* parseNames: split on '/', drop the empty segments
parseNames(fullName) == SelectSeq(fullName, LAMBDA n : n # "")

\* name.lastIndexOf('/') != -1
HasSlash(key) == Len(key) > 1

\* name.mid(0, slashIndex)
KeyPrefix(key) == SubSeq(key, 1, Len(key) - 1)

\* name.mid(slashIndex + 1)
KeyLeaf(key) == key[Len(key)]

\* Config::beginGroup
beginGroup(w, c, fullName) ==
    IF w.failed THEN w
    ELSE IF IsEmptyName(fullName) \/ parseNames(fullName) = <<>> \/ Levels(w, c) = <<>>
    THEN Fail(w)
    ELSE Push(w, c, LevelConvert(LevelChildNames(AtLevel(w, c), parseNames(fullName)),
                                 "Map"), FALSE)

\* Config::endGroup: Q_ASSERT(d->levels.size() > 1)
endGroup(w, c) ==
    IF w.failed THEN w
    ELSE IF Len(Levels(w, c)) <= 1 THEN Fail(w)
    ELSE Pop(w, c)

\* the temporary beginGroup / endGroup of a key with a '/'
EnterKey(w, c, key) == IF HasSlash(key) THEN beginGroup(w, c, KeyPrefix(key)) ELSE w

LeaveKey(w, c, key) == IF HasSlash(key) THEN endGroup(w, c) ELSE w

\* QVariant::isNull: an invalid variant, or a scalar of a type with an isNull
\* method holding its null value (a null QString); such payloads are negative
VariantIsNull(var) == var.t = "Null" \/ (var.t = "Value" /\ var.v < 0)

RECURSIVE ValueLoop(_, _, _, _, _)
RECURSIVE ValueLoopNext(_, _, _, _, _)
RECURSIVE ValueLoopBreak(_, _, _, _, _)

\* a loop that never breaks: the last layer wins (sensitivity variant)
ValueLoopLastWins(h, atoms, i, name, var) == ValueLoop(h, atoms, i + 1, name, var)

\* if (!var.isNull()) break;
ValueLoopBreak(h, atoms, i, name, var) ==
    IF ~VariantIsNull(var) THEN [h |-> h, var |-> var, ok |-> TRUE]
    ELSE ValueLoop(h, atoms, i + 1, name, var)

\* if (child && !child->isNull()) var = child->toVariant();
ValueLoopNext(ch, atoms, i, name, var) ==
    IF ~ch.ok THEN [h |-> ch.h, var |-> var, ok |-> FALSE]
    ELSE ValueLoopBreak(ch.h, atoms, i, name,
                        IF ch.r # 0 /\ ch.h[ch.r].type # "Null"
                        THEN toVariant(ch.h, ch.r) ELSE var)

\* the loop of Config::value over the atoms of the level: Q_ASSERT(atom->isMap())
ValueLoop(h, atoms, i, name, var) ==
    IF i > Len(atoms) THEN [h |-> h, var |-> var, ok |-> TRUE]
    ELSE IF h[atoms[i]].type # "Map" THEN [h |-> h, var |-> var, ok |-> FALSE]
    ELSE ValueLoopNext(AtomChildName(h, atoms[i], name), atoms, i, name, var)

ValueFound(w, lp) ==
    IF ~lp.ok THEN Fail(w) ELSE [w EXCEPT !.heap = lp.h, !.res = lp.var]

ValueLookup(w, c, name) ==
    IF w.failed THEN w
    ELSE ValueFound(w, ValueLoop(w.heap, Current(w, c).atoms, 1, name, VNull))

\* return var.isNull() ? def : var
ValueResult(w, def) ==
    IF w.failed THEN w ELSE [w EXCEPT !.res = IF VariantIsNull(@) THEN def ELSE @]

\* Config::value(key, def)
value(w, c, key, def) ==
    IF w.failed THEN w
    ELSE IF Levels(w, c) = <<>> THEN Fail(w)
    ELSE IF Current(w, c).atoms = <<>> THEN [w EXCEPT !.res = def]
    ELSE ValueResult(LeaveKey(ValueLookup(EnterKey(w, c, key), c, KeyLeaf(key)), c, key),
                     def)

\* d->sources.first()->makeDirty()
MakeFirstDirty(w, c) ==
    IF w.cursors[c].sources = <<>> THEN Fail(w)
    ELSE [w EXCEPT !.sources[w.cursors[c].sources[1]].dirty = TRUE]

\* if (atom->replace(...)) { if (!d->sources.isEmpty()) d->sources.first()->makeDirty(); }
SetValueDirty(w, c, rp) ==
    IF rp.r /\ w.cursors[c].sources # <<>>
    THEN MakeFirstDirty([w EXCEPT !.heap = rp.h, !.res = rp.r], c)
    ELSE [w EXCEPT !.heap = rp.h, !.res = rp.r]

\* atom->replace(name, ConfigAtom::fromVariant(var, false))
ReplaceWith(nv, atom, name) == AtomReplace(nv.h, atom, name, nv.r)

\* ConfigAtom::Ptr atom = d->current()->atoms.first();
\* Q_ASSERT(atom->isMap() && !atom->isReadOnly());
SetValueReplace(w, c, name, var) ==
    IF w.failed THEN w
    ELSE IF Current(w, c).atoms = <<>> THEN Fail(w)
    ELSE IF w.heap[Current(w, c).atoms[1]].type # "Map"
            \/ w.heap[Current(w, c).atoms[1]].readOnly THEN Fail(w)
    ELSE SetValueDirty(w, c, ReplaceWith(fromVariant(w.heap, var, FALSE),
                                         Current(w, c).atoms[1], name))

\* Config::setValue(key, value); res = replace() reported a change
setValue(w, c, key, var) ==
    IF w.failed THEN w
    ELSE IF Levels(w, c) = <<>> THEN Fail(w)
    ELSE IF Current(w, c).atoms = <<>> THEN [w EXCEPT !.res = FALSE]
    ELSE LeaveKey(SetValueReplace(EnterKey(w, c, key), c, KeyLeaf(key), var), c, key)

\* if (atom->remove(...)) d->sources.first()->makeDirty();
RemoveDirty(w, c, rm) ==
    IF ~rm.ok THEN Fail(w)
    ELSE IF rm.r THEN MakeFirstDirty([w EXCEPT !.heap = rm.h], c)
    ELSE w

\* Config::remove(const QString &name): atoms.value(0) is null without atoms
removeName(w, c, name) ==
    IF w.failed THEN w
    ELSE IF Levels(w, c) = <<>> \/ Current(w, c).atoms = <<>> THEN Fail(w)
    ELSE RemoveDirty(w, c, AtomRemoveName(w.heap, Current(w, c).atoms[1], name))

\* if (d->current()->arrayElement) d->levels.takeFirst()
PopArrayElement(w, c) ==
    IF w.failed THEN w
    ELSE IF Levels(w, c) = <<>> THEN Fail(w)
    ELSE IF Current(w, c).arrayElement THEN Pop(w, c)
    ELSE w

RemoveIndexAt(w, c, index) ==
    IF w.failed THEN w
    ELSE IF Levels(w, c) = <<>> \/ Current(w, c).atoms = <<>> THEN Fail(w)
    ELSE RemoveDirty(w, c, AtomRemoveIndex(w.heap, Current(w, c).atoms[1], index))

\* Config::remove(int index)
removeIndex(w, c, index) == RemoveIndexAt(PopArrayElement(w, c), c, index)

RECURSIVE ArraySizeLoop(_, _, _)
RECURSIVE ArraySizeNext(_, _, _, _)

ArraySizeNext(sz, h, atoms, i) ==
    IF ~sz.ok \/ sz.r > 0 \/ i = Len(atoms) THEN sz ELSE ArraySizeLoop(h, atoms, i + 1)

\* for (atom : level->atoms) if ((size = atom->arraySize()) > 0) break;
ArraySizeLoop(h, atoms, i) ==
    IF i > Len(atoms) THEN [r |-> 0, ok |-> TRUE]
    ELSE ArraySizeNext(AtomArraySize(h, atoms[i]), h, atoms, i)

ArraySizeResult(w, sz) == IF ~sz.ok THEN Fail(w) ELSE [w EXCEPT !.res = sz.r]

\* Config::arraySize: the level is levels.at(1) inside an array element
arraySize(w, c) ==
    IF w.failed THEN w
    ELSE IF Levels(w, c) = <<>> THEN Fail(w)
    ELSE IF Current(w, c).arrayElement /\ Len(Levels(w, c)) < 2 THEN Fail(w)
    ELSE ArraySizeResult(w, ArraySizeLoop(w.heap,
                             (IF Current(w, c).arrayElement THEN Levels(w, c)[2]
                              ELSE Current(w, c)).atoms, 1))

\* Config::beginArray
beginArray(w, c, name) ==
    IF w.failed THEN w
    ELSE IF IsEmptyName(name) \/ Levels(w, c) = <<>> THEN Fail(w)
    ELSE arraySize(Push(w, c, LevelConvert(LevelChildNames(AtLevel(w, c), parseNames(name)),
                                           "List"), FALSE), c)

EndArrayPop(w, c) ==
    IF w.failed THEN w
    ELSE IF Len(Levels(w, c)) <= 1 \/ Current(w, c).arrayElement THEN Fail(w)
    ELSE Pop(w, c)

\* Config::endArray
endArray(w, c) ==
    IF w.failed THEN w
    ELSE IF Len(Levels(w, c)) <= 1 THEN Fail(w)
    ELSE EndArrayPop(PopArrayElement(w, c), c)

\* Q_ASSERT(level->atoms.first()->isList()), then child(index)->convert(Map)
SetArrayIndexAt(w, c, index) ==
    IF w.failed THEN w
    ELSE IF Levels(w, c) = <<>> \/ Current(w, c).atoms = <<>> THEN Fail(w)
    ELSE IF w.heap[Current(w, c).atoms[1]].type # "List" THEN Fail(w)
    ELSE Push(w, c, LevelConvert(LevelChildIndex(AtLevel(w, c), index), "Map"), TRUE)

\* Config::setArrayIndex
setArrayIndex(w, c, index) == SetArrayIndexAt(PopArrayElement(w, c), c, index)

\* a clone that takes no atoms along (sensitivity variant)
cloneEmpty(w, c) ==
    IF w.failed THEN w
    ELSE IF Levels(w, c) = <<>> THEN Fail(w)
    ELSE [w EXCEPT !.cursors = Append(@, [levels |-> <<[atoms |-> <<>>, arrayElement |-> FALSE]>>,
                                           sources |-> w.cursors[c].sources,
                                           memoryGuard |-> c, held |-> TRUE,
                                           alive |-> TRUE]),
                   !.res = Len(w.cursors) + 1]

\* ConfigPrivate::clone, p->memoryGuard = d_ptr and Config(p): a new
\* ConfigPrivate whose only level is a copy of current(), held by its handle
cloneGuarded(w, c) ==
    IF w.failed THEN w
    ELSE IF Levels(w, c) = <<>> THEN Fail(w)
    ELSE [w EXCEPT !.cursors = Append(@, [levels |-> <<Current(w, c)>>,
                                           sources |-> w.cursors[c].sources,
                                           memoryGuard |-> c, held |-> TRUE,
                                           alive |-> TRUE]),
                   !.res = Len(w.cursors) + 1]

\* Config::group
group(w, c, fullName) ==
    IF w.failed THEN w
    ELSE IF IsEmptyName(fullName) THEN Fail(w)
    ELSE endGroup(cloneGuarded(beginGroup(w, c, fullName), c), c)

\* cfg.setArrayIndex(index) on the clone, which is returned
ArrayElementAt(w, index) ==
    IF w.failed THEN w ELSE [setArrayIndex(w, w.res, index) EXCEPT !.res = w.res]

\* Config::arrayElement
arrayElement(w, c, index) == ArrayElementAt(cloneGuarded(w, c), index)

-----------------------------------------------------------------------------
(* ConfigSource, ConfigSourceHash, PostConfigSaver                         *)

\* SystemInfo::getDir(type).filePath(fileName), cleaned, with the default
\* backend's suffix appended: the directory and the relative path
ResolveFileName(path, systemDir) ==
    <<IF systemDir THEN "system" ELSE "user", IF path = "" THEN "profile" ELSE path>>

\* QFileInfo::isWritable: a missing file is not writable
IsWritable(f) == f.exists /\ f.writable

\* backend->load(fileName)
BackendLoad(f) == IF f.exists THEN f.content ELSE VNull

\* a save that writes nothing (sensitivity variant)
BackendSaveNothing(f, variant) == f

\* backend->save(fileName, variant): the write fails on a file that is not
\* writable; a successful write gives the file a new modification time
BackendSave(f, variant) ==
    IF f.exists /\ ~f.writable THEN f
    ELSE [exists |-> TRUE, writable |-> TRUE, mtime |-> f.mtime + 1, content |-> variant]

\* a validity test that never succeeds (sensitivity variant)
isValidNever(w, s) == FALSE

\* ConfigSource::isValid
isValid(w, s) == w.files[w.sources[s].fileName].mtime = w.sources[s].lastModified

SourceSaved(w, s, f) ==
    [w EXCEPT !.files[w.sources[s].fileName] = f,
              !.saved = Append(@, s),
              !.sources[s].dirty = FALSE,
              !.sources[s].lastModified = f.mtime]

\* a sync that writes back what the file holds already (sensitivity variant)
SourceSyncStale(w, s) ==
    SourceSaved(w, s, BackendSave(w.files[w.sources[s].fileName],
                                  w.files[w.sources[s].fileName].content))

\* ConfigSource::sync: save, dirty = false, update()
SourceSync(w, s) ==
    SourceSaved(w, s, BackendSave(w.files[w.sources[s].fileName],
                                  toVariant(w.heap, w.sources[s].data)))

\* the owners of a ConfigSource::Ptr: cursors, the cache, posted events
Referenced(w, s) ==
    \/ \E i \in 1..Len(w.queue) : w.queue[i] = s
    \/ \E f \in DOMAIN w.cache : w.cache[f] = s
    \/ \E c \in 1..Len(w.cursors) :
          /\ w.cursors[c].alive
          /\ \E i \in 1..Len(w.cursors[c].sources) : w.cursors[c].sources[i] = s

\* ConfigSource::~ConfigSource: if (dirty) sync()
SourceDestroy(w, s) ==
    [(IF w.sources[s].dirty THEN SourceSync(w, s) ELSE w) EXCEPT !.sources[s].alive = FALSE]

RECURSIVE CollectFrom(_, _)

CollectFrom(w, s) ==
    IF s > Len(w.sources) THEN w
    ELSE CollectFrom(IF w.sources[s].alive /\ ~Referenced(w, s)
                     THEN SourceDestroy(w, s) ELSE w, s + 1)

\* the last QSharedPointer to a source is gone: its destructor runs
CollectSources(w) == CollectFrom(w, 1)

\* sourceHash()->insert(fileName, result); return result;
OpenInsert(w, fileName, data, lastModified) ==
    CollectSources([w EXCEPT !.heap = data.h,
                             !.sources = Append(@, [fileName |-> fileName, dirty |-> FALSE,
                                                    isAtLoop |-> FALSE, data |-> data.r,
                                                    lastModified |-> lastModified,
                                                    alive |-> TRUE]),
                             !.cache[fileName] = Len(w.sources) + 1,
                             !.res = Len(w.sources) + 1])

\* if (d->data->isValue() || d->data->isNull()) { if (!create) return null;
\*     d->data = fromVariant(QVariantMap(), readOnly); }
OpenLoaded(w, fileName, ld, readOnly, create, lastModified) ==
    IF ld.h[ld.r].type \in {"Value", "Null"}
    THEN IF ~create THEN [w EXCEPT !.res = 0]
         ELSE OpenInsert(w, fileName, fromVariant(w.heap, VMap(EmptyMap), readOnly),
                         lastModified)
    ELSE OpenInsert(w, fileName, ld, lastModified)

\* const bool readOnly = !info.isWritable() && (systemDir || info.exists());
OpenReadOnly(info, systemDir) == ~IsWritable(info) /\ (systemDir \/ info.exists)

\* the cached source is returned when it is valid
CacheHit(w, result) == result # 0 /\ isValid(w, result)

OpenFile(w, fileName, result, info, systemDir, create) ==
    IF CacheHit(w, result) THEN [w EXCEPT !.res = result]
    ELSE IF ~info.exists /\ ~create THEN [w EXCEPT !.res = result]
    ELSE OpenLoaded([w EXCEPT !.loaded = Append(@, fileName)], fileName,
                    fromVariant(w.heap, BackendLoad(info), OpenReadOnly(info, systemDir)),
                    OpenReadOnly(info, systemDir), create, info.mtime)

\* ConfigSource::open for a relative path without a registered suffix and
\* no explicit backend, in a directory that exists; res = the source, 0 = null
open(w, path, systemDir, create) ==
    OpenFile(w, ResolveFileName(path, systemDir), w.cache[ResolveFileName(path, systemDir)],
             w.files[ResolveFileName(path, systemDir)], systemDir, create)

\* ConfigSourceHash::timerEvent: the idle entry leaves the cache
timerEvent(w, fileName) == CollectSources([w EXCEPT !.cache[fileName] = 0])

\* if (source && source->dirty && !source->isAtLoop)
SyncPosts(w, source) == w.sources[source].dirty /\ ~w.sources[source].isAtLoop

\* a sync that ignores the queued bit (sensitivity variant)
PrivateSyncUnguarded(w, c) ==
    IF w.cursors[c].sources = <<>> THEN w
    ELSE IF w.sources[w.cursors[c].sources[1]].dirty
    THEN [w EXCEPT !.sources[w.cursors[c].sources[1]].isAtLoop = TRUE,
                   !.sources[w.cursors[c].sources[1]].dirty = FALSE,
                   !.queue = Append(@, w.cursors[c].sources[1])]
    ELSE w

\* ConfigPrivate::sync
PrivateSync(w, c) ==
    IF w.cursors[c].sources = <<>> THEN w
    ELSE IF SyncPosts(w, w.cursors[c].sources[1])
    THEN [w EXCEPT !.sources[w.cursors[c].sources[1]].isAtLoop = TRUE,
                   !.sources[w.cursors[c].sources[1]].dirty = FALSE,
                   !.queue = Append(@, w.cursors[c].sources[1])]
    ELSE w

\* an event handler that leaves the queued bit set (sensitivity variant)
SaverEventKeepsBit(w, source) == SourceSync(w, source)

\* an event handler that saves a dirty Source only (sensitivity variant)
SaverEventIfDirty(w, source) ==
    IF w.sources[source].dirty
    THEN [SourceSync(w, source) EXCEPT !.sources[source].isAtLoop = FALSE]
    ELSE [w EXCEPT !.sources[source].isAtLoop = FALSE]

\* PostConfigSaver::event for a PostConfigSaveEvent
SaverEvent(w, source) == [SourceSync(w, source) EXCEPT !.sources[source].isAtLoop = FALSE]

\* delivery of the newest event first (sensitivity variant)
TakeNewest(q) == [event |-> q[Len(q)], rest |-> SubSeq(q, 1, Len(q) - 1)]

\* posted events of equal priority are delivered oldest first
TakeEvent(q) == [event |-> Head(q), rest |-> Tail(q)]

RECURSIVE SendPostedEvents(_)

\* QCoreApplication::sendPostedEvents: deliver and delete every posted event
SendPostedEvents(w) ==
    IF w.queue = <<>> THEN CollectSources(w)
    ELSE SendPostedEvents(SaverEvent([w EXCEPT !.queue = TakeEvent(@).rest],
                                     TakeEvent(w.queue).event))

\* PostConfigSaver::cleanup, the post routine of the application
cleanup(w) == SendPostedEvents(w)

\* no cursor is held by a memoryGuard (sensitivity variant)
GuardsNone(w, c) == FALSE

Guards(w, c) ==
    \E c2 \in 1..Len(w.cursors) : w.cursors[c2].alive /\ w.cursors[c2].memoryGuard = c

\* the members of a destroyed ConfigPrivate are released
PrivateGone(w, c) ==
    [w EXCEPT !.cursors[c].alive = FALSE, !.cursors[c].levels = <<>>,
              !.cursors[c].sources = <<>>, !.cursors[c].memoryGuard = 0]

RECURSIVE PrivateRelease(_, _)

\* the reference count of a ConfigPrivate reaches zero: ~ConfigPrivate syncs
\* when there is no memoryGuard, then the members are released
PrivateRelease(w, c) ==
    IF ~w.cursors[c].alive \/ w.cursors[c].held \/ Guards(w, c) THEN w
    ELSE IF w.cursors[c].memoryGuard = 0 THEN PrivateGone(PrivateSync(w, c), c)
    ELSE PrivateRelease(PrivateGone(w, c), w.cursors[c].memoryGuard)

\* Config::~Config of the handle of cursor c
dropConfig(w, c) ==
    CollectSources(PrivateRelease([w EXCEPT !.cursors[c].held = FALSE], c))

RECURSIVE OpenPaths(_, _, _, _)

\* if (source && !opened.contains(source->fileName)) { opened.insert; sources << source; }
OpenAdd(st, w1) ==
    IF w1.res # 0 /\ w1.sources[w1.res].fileName \notin st.opened
    THEN [w |-> w1, sources |-> Append(st.sources, w1.res),
          opened |-> st.opened \cup {w1.sources[w1.res].fileName}]
    ELSE [st EXCEPT !.w = w1]

\* one pass of the constructor's loop over the paths: st = [w, sources, opened];
\* create = sources.isEmpty()
OpenPaths(st, paths, i, systemDir) ==
    IF i > Len(paths) THEN st
    ELSE OpenPaths(OpenAdd(st, open(st.w, paths[i], systemDir, st.sources = <<>>)),
                   paths, i + 1, systemDir)

RECURSIVE Fallbacks(_, _, _)
RECURSIVE FallbackAdd(_, _, _, _)

\* if (fallback->isNull() || fallback->isValue()) continue;
FallbackAdd(x, fb, fallbacks, i) ==
    Fallbacks([h |-> fb.h,
               atoms |-> IF fb.h[fb.r].type \in {"Null", "Value"} THEN x.atoms
                         ELSE Append(x.atoms, fb.r)],
              fallbacks, i + 1)

\* the fallback atoms are read-only
Fallbacks(x, fallbacks, i) ==
    IF i > Len(fallbacks) THEN x
    ELSE FallbackAdd(x, fromVariant(x.h, fallbacks[i], TRUE), fallbacks, i)

NewPrivate(w, x, srcs) ==
    [w EXCEPT !.heap = x.h,
              !.cursors = Append(@, [levels |-> <<NewLevel(x.atoms)>>, sources |-> srcs,
                                     memoryGuard |-> 0, held |-> TRUE, alive |-> TRUE]),
              !.res = Len(w.cursors) + 1]

\* current()->atoms << source->data for every source, then the fallbacks
ConfigAtoms(st, fallbacks) ==
    NewPrivate(st.w,
               Fallbacks([h |-> st.w.heap,
                          atoms |-> [i \in 1..Len(st.sources) |->
                                        st.w.sources[st.sources[i]].data]],
                         fallbacks, 1),
               st.sources)

\* ConfigPrivate::ConfigPrivate(paths, fallbacks) and the Config handle on it:
\* the user directory first (j = 0), then the system directory (j = 1)
newConfig(w, paths, fallbacks) ==
    ConfigAtoms(OpenPaths(OpenPaths([w |-> w, sources |-> <<>>, opened |-> {}],
                                    paths, 1, FALSE),
                          paths, 1, TRUE),
                fallbacks)

\* Config::Config(const QVariantMap &) and Config::Config(const QVariantList &)
MemoryPrivate(w, a) == NewPrivate(w, [h |-> a.h, atoms |-> <<a.r>>], <<>>)

newMemoryConfig(w, variant) == MemoryPrivate(w, fromVariant(w.heap, variant, FALSE))

-----------------------------------------------------------------------------
(* The process                                                             *)

VARIABLES
    heap,       \* ConfigAtom objects
    sources,    \* ConfigSource objects
    cursors,    \* ConfigPrivate objects
    files,      \* the files on disk
    cache,      \* sourceHash
    queue,      \* the posted save events
    saved,      \* the backend.save calls made so far (source ids)
    loaded,     \* the backend.load calls made so far (file names)
    failed,     \* an operation aborted the process
    phase,      \* "running", "cleaned" (post routine done), "exited"
    client,     \* the calling program: its step budget and its script
    steps,      \* operations performed so far
    last,       \* the operation performed last, its arguments and result
    trail,      \* the operations of a scripted client, oldest first
    hist        \* bookkeeping of the save protocol for the properties

vars == <<heap, sources, cursors, files, cache, queue, saved, loaded, failed, phase,
          client, steps, last, trail, hist>>

W == [heap |-> heap, sources |-> sources, cursors |-> cursors, files |-> files,
      cache |-> cache, queue |-> queue, saved |-> saved, loaded |-> loaded,
      failed |-> failed, res |-> VNull]

Range(s) == {s[i] : i \in 1..Len(s)}

\* a ConfigAtom is owned by an atom, a level of a live cursor or a live source
AtomOwned(w, n) ==
    \/ \E m \in 1..Len(w.heap) :
          \/ \E k \in DOMAIN w.heap[m].map : w.heap[m].map[k] = n
          \/ n \in Range(w.heap[m].list)
    \/ \E c \in 1..Len(w.cursors) :
          \E l \in 1..Len(w.cursors[c].levels) : n \in Range(w.cursors[c].levels[l].atoms)
    \/ \E s \in 1..Len(w.sources) : w.sources[s].alive /\ w.sources[s].data = n

RECURSIVE FreeAtoms(_)

\* QSharedPointer frees the atoms nobody owns (here: those at the end of the heap)
FreeAtoms(w) ==
    IF w.heap # <<>> /\ ~AtomOwned(w, Len(w.heap))
    THEN FreeAtoms([w EXCEPT !.heap = SubSeq(@, 1, Len(@) - 1)])
    ELSE w

\* the state an operation leaves: an aborted operation leaves only the failure
Commit(w) ==
    LET o == IF w.failed THEN Fail(W) ELSE FreeAtoms(w)
    IN /\ heap' = o.heap
       /\ sources' = o.sources
       /\ cursors' = o.cursors
       /\ files' = o.files
       /\ cache' = o.cache
       /\ queue' = o.queue
       /\ saved' = o.saved
       /\ loaded' = o.loaded
       /\ failed' = o.failed

\* the level stack of cursor c
Stack(c) == IF c \in 1..Len(cursors) THEN cursors[c].levels ELSE <<>>

\* the operation op(key, arg) on cursor c, which left the world w and returned
\* w.res; pre is what was observed of the state before it, empty the cursors
\* whose level stack was empty when the operation returned or aborted
Record(w, op, c, key, arg, pre) ==
    [op |-> op, c |-> c, key |-> key, arg |-> arg, pre |-> pre, stack |-> Stack(c),
     res |-> w.res, ok |-> ~w.failed,
     empty |-> {k \in 1..Len(w.cursors) : w.cursors[k].levels = <<>>}]

Done(w, op, c, key, arg, pre) ==
    /\ Commit(w)
    /\ last' = Record(w, op, c, key, arg, pre)
    /\ trail' = IF client.script # <<>>
                THEN Append(trail, Record(w, op, c, key, arg, pre)) ELSE trail

Running == ~failed /\ phase = "running" /\ steps < client.limit

\* a Config handle the client still has
Usable(c) == c \in 1..Len(cursors) /\ cursors[c].alive /\ cursors[c].held

Tick == steps' = steps + 1 /\ UNCHANGED client

FirstSource(c) == IF cursors[c].sources = <<>> THEN 0 ELSE cursors[c].sources[1]

\* Config(paths, fallbacks)
NewConfig(paths, fallbacks) ==
    /\ Running
    /\ Done(newConfig(W, paths, fallbacks), "newConfig", 0, paths, fallbacks,
            [cache |-> cache, loaded |-> Len(loaded), files |-> files,
             sources |-> Len(sources),
             valid |-> {s \in 1..Len(sources) :
                          /\ sources[s].alive
                          /\ files[sources[s].fileName].mtime = sources[s].lastModified},
             asLoaded |-> {s \in 1..Len(sources) :
                             /\ sources[s].alive /\ s \notin Range(saved)
                             /\ files[sources[s].fileName].mtime = sources[s].lastModified}])
    /\ Tick /\ UNCHANGED <<phase, hist>>

\* Config(map) / Config(list)
NewMemoryConfig(variant) ==
    /\ Running
    /\ Done(newMemoryConfig(W, variant), "newMemoryConfig", 0, <<>>, variant, 0)
    /\ Tick /\ UNCHANGED <<phase, hist>>

\* the tree values of the atoms of the current level, first layer first
Layers(c) ==
    IF cursors[c].levels = <<>> THEN <<>>
    ELSE [i \in 1..Len(cursors[c].levels[1].atoms) |->
             toVariant(heap, cursors[c].levels[1].atoms[i])]

DirtySources == {s \in 1..Len(sources) : sources[s].dirty}

\* the tree value of every live Source
SourceTrees ==
    [s \in 1..Len(sources) |->
        IF sources[s].alive THEN toVariant(heap, sources[s].data) ELSE VNull]

\* cfg.setValue(key, var)
SetValue(c, key, var) ==
    /\ Running /\ Usable(c)
    /\ Done(setValue(W, c, key, var), "setValue", c, key, var,
            [dirty |-> DirtySources, back |-> FALSE, layers |-> <<>>,
             trees |-> SourceTrees])
    /\ Tick /\ UNCHANGED <<phase, hist>>

\* cfg.setValue(key, cfg.value(key)): the value just read is written back
SetValueBack(c) ==
    /\ Running /\ Usable(c)
    /\ last.op = "value" /\ last.ok /\ last.c = c /\ last.arg = VNull
    /\ Done(setValue(W, c, last.key, last.res), "setValue", c, last.key, last.res,
            [dirty |-> DirtySources, back |-> TRUE, layers |-> last.pre,
             trees |-> SourceTrees])
    /\ Tick /\ UNCHANGED <<phase, hist>>

\* cfg.value(key, def)
Value(c, key, def) ==
    /\ Running /\ Usable(c)
    /\ Done(value(W, c, key, def), "value", c, key, def, Layers(c))
    /\ Tick /\ UNCHANGED <<phase, hist>>

\* the type and the read-only flag of the first atom of the current level
FirstAtom(c) ==
    IF Stack(c) = <<>> \/ Stack(c)[1].atoms = <<>> THEN [type |-> "None", readOnly |-> TRUE]
    ELSE [type |-> heap[Stack(c)[1].atoms[1]].type,
          readOnly |-> heap[Stack(c)[1].atoms[1]].readOnly]

BeginGroup(c, fullName) ==
    /\ Running /\ Usable(c)
    /\ Done(beginGroup(W, c, fullName), "beginGroup", c, fullName, 0, FirstAtom(c))
    /\ Tick /\ UNCHANGED <<phase, hist>>

EndGroup(c) ==
    /\ Running /\ Usable(c)
    /\ Done(endGroup(W, c), "endGroup", c, <<>>, 0, 0)
    /\ Tick /\ UNCHANGED <<phase, hist>>

BeginArray(c, name) ==
    /\ Running /\ Usable(c)
    /\ Done(beginArray(W, c, name), "beginArray", c, name, 0, 0)
    /\ Tick /\ UNCHANGED <<phase, hist>>

SetArrayIndex(c, index) ==
    /\ Running /\ Usable(c)
    /\ Done(setArrayIndex(W, c, index), "setArrayIndex", c, <<>>, index, 0)
    /\ Tick /\ UNCHANGED <<phase, hist>>

EndArray(c) ==
    /\ Running /\ Usable(c)
    /\ Done(endArray(W, c), "endArray", c, <<>>, 0, 0)
    /\ Tick /\ UNCHANGED <<phase, hist>>

ArraySize(c) ==
    /\ Running /\ Usable(c)
    /\ Done(arraySize(W, c), "arraySize", c, <<>>, 0, 0)
    /\ Tick /\ UNCHANGED <<phase, hist>>

RemoveName(c, name) ==
    /\ Running /\ Usable(c)
    /\ Done(removeName(W, c, name), "removeName", c, <<name>>, 0,
            [dirty |-> DirtySources, trees |-> SourceTrees, layers |-> Layers(c)])
    /\ Tick /\ UNCHANGED <<phase, hist>>

\* the atom cfg.remove(index) works on: the first atom of the current level,
\* or of the level below an array element; 0 when there is none
RemoveTarget(c) ==
    IF Stack(c) = <<>> THEN 0
    ELSE IF ~Stack(c)[1].arrayElement
    THEN (IF Stack(c)[1].atoms = <<>> THEN 0 ELSE Stack(c)[1].atoms[1])
    ELSE IF Len(Stack(c)) < 2 \/ Stack(c)[2].atoms = <<>> THEN 0
    ELSE Stack(c)[2].atoms[1]

RemoveIndex(c, index) ==
    /\ Running /\ Usable(c)
    /\ Done(removeIndex(W, c, index), "removeIndex", c, <<>>, index,
            [atom |-> RemoveTarget(c),
             array |-> IF RemoveTarget(c) = 0 THEN VNull ELSE toVariant(heap, RemoveTarget(c)),
             dirty |-> DirtySources, trees |-> SourceTrees])
    /\ Tick /\ UNCHANGED <<phase, hist>>

Group(c, fullName) ==
    /\ Running /\ Usable(c)
    /\ Done(group(W, c, fullName), "group", c, fullName, 0, 0)
    /\ Tick /\ UNCHANGED <<phase, hist>>

ArrayElement(c, index) ==
    /\ Running /\ Usable(c)
    /\ Done(arrayElement(W, c, index), "arrayElement", c, <<>>, index, 0)
    /\ Tick /\ UNCHANGED <<phase, hist>>

\* setValue changed the tree and sync() follows on the same file-backed cursor
SyncsAChange(c) ==
    /\ last.op = "setValue" /\ last.c = c /\ last.ok
    /\ last.res = TRUE /\ FirstSource(c) # 0

\* Config::sync
Sync(c) ==
    /\ Running /\ Usable(c)
    /\ Done(PrivateSync(W, c), "sync", c, <<>>, 0,
            [change |-> SyncsAChange(c), source |-> FirstSource(c),
             queued |-> FirstSource(c) \in Range(queue),
             sources |-> cursors[c].sources, dirty |-> DirtySources, queue |-> queue])
    /\ hist' = [hist EXCEPT !.pairs = IF SyncsAChange(c)
                                      THEN Append(@, FirstSource(c)) ELSE @]
    /\ Tick /\ UNCHANGED phase

RECURSIVE Original(_)

\* the cursor at the end of the memoryGuard chain of cursor c
Original(c) == IF cursors[c].memoryGuard = 0 THEN c ELSE Original(cursors[c].memoryGuard)

\* the Config handle goes out of scope
Drop(c) ==
    /\ ~failed /\ phase # "exited" /\ steps < client.limit /\ Usable(c)
    /\ Done(dropConfig(W, c), "drop", c, <<>>, 0,
            [memoryGuard |-> cursors[c].memoryGuard, original |-> Original(c),
             guardLayers |-> IF cursors[c].memoryGuard = 0 THEN <<>>
                             ELSE Layers(cursors[c].memoryGuard),
             sources |-> cursors[c].sources,
             dirty |-> DirtySources, queue |-> queue])
    /\ Tick /\ UNCHANGED <<phase, hist>>

TurnDone(w) ==
    /\ Done(w, "turn", 0, <<>>, 0, [pairs |-> hist.pairs, queue |-> queue,
                                    base |-> hist.base, saved |-> Len(saved),
                                    dirty |-> DirtySources,
                                    trees |-> [i \in 1..Len(queue) |->
                                                 toVariant(heap, sources[queue[i]].data)]])
    /\ hist' = [hist EXCEPT !.pairs = <<>>, !.base = Len(w.saved)]

\* one turn of the event loop: the posted save events are delivered
Turn ==
    /\ Running
    /\ TurnDone(SendPostedEvents(W))
    /\ Tick /\ UNCHANGED phase

\* the idle timer of a cache entry fires
Timer(fileName) ==
    /\ Running /\ cache[fileName] # 0
    /\ Done(timerEvent(W, fileName), "timer", 0, fileName, 0, 0)
    /\ Tick /\ UNCHANGED <<phase, hist>>

\* another program rewrites the file
Touch(fileName, variant) ==
    /\ Running /\ files[fileName].exists
    /\ Done([W EXCEPT !.files[fileName].mtime = @ + 1,
                      !.files[fileName].content = variant], "touch", 0, fileName, variant, 0)
    /\ Tick /\ UNCHANGED <<phase, hist>>

\* ~QCoreApplication runs the post routine PostConfigSaver::cleanup
Shutdown ==
    /\ Running
    /\ Done(cleanup(W), "shutdown", 0, <<>>, 0, 0)
    /\ hist' = [hist EXCEPT !.dirty = {s \in 1..Len(sources) :
                                          sources[s].alive /\ sources[s].dirty},
                            !.shutdownBase = Len(saved)]
    /\ phase' = "cleaned"
    /\ Tick

\* the process exits: the global sourceHash is destroyed, handles still held
\* are never destructed
Exit ==
    /\ ~failed /\ phase = "cleaned"
    /\ Done(CollectSources([W EXCEPT !.cache = [f \in DOMAIN cache |-> 0]]),
            "exit", 0, <<>>, 0, 0)
    /\ phase' = "exited"
    /\ UNCHANGED <<client, steps, hist>>

-----------------------------------------------------------------------------
(* Inputs                                                                  *)

Paths == {"p", "q"}

FileNames == {ResolveFileName(p, sd) : p \in Paths, sd \in BOOLEAN}

NoFile == [exists |-> FALSE, writable |-> FALSE, mtime |-> 0, content |-> VNull]

File(variant, writable) ==
    [exists |-> TRUE, writable |-> writable, mtime |-> 1, content |-> variant]

M1(k, x) == VMap(k :> x)

M2(k1, x1, k2, x2) == VMap((k1 :> x1) @@ (k2 :> x2))

Start(fs, cl) ==
    /\ heap = <<>>
    /\ sources = <<>>
    /\ cursors = <<>>
    /\ files = fs
    /\ cache = [f \in FileNames |-> 0]
    /\ queue = <<>>
    /\ saved = <<>>
    /\ loaded = <<>>
    /\ failed = FALSE
    /\ phase = "running"
    /\ client = cl
    /\ steps = 0
    /\ last = [op |-> "start", c |-> 0, key |-> <<>>, arg |-> 0, pre |-> 0,
               stack |-> <<>>, res |-> 0, ok |-> TRUE, empty |-> {}]
    /\ trail = <<>>
    /\ hist = [pairs |-> <<>>, base |-> 0, dirty |-> {}, shutdownBase |-> 0]

Cursors == 1..Len(cursors)

-----------------------------------------------------------------------------
(* The save protocol: two user files, cursors over each, the event loop,   *)
(* the cache timer and the shutdown.                                       *)

MaxConfigs == 2

MaxStepsSave == 7

SaveFiles ==
    [f \in FileNames |->
        IF f[1] = "user" THEN File(M1("a", VValue(1)), TRUE) ELSE NoFile]

InitSave == Start(SaveFiles, [limit |-> MaxStepsSave, script |-> <<>>])

NextSave ==
    \/ \E p \in Paths : Len(cursors) < MaxConfigs /\ NewConfig(<<p>>, <<>>)
    \/ \E c \in Cursors, x \in {1, 2} : SetValue(c, <<"a">>, VValue(x))
    \/ \E c \in Cursors : Sync(c)
    \/ \E c \in Cursors : Drop(c)
    \/ Turn
    \/ \E f \in FileNames : Timer(f)
    \/ Shutdown
    \/ Exit

SpecSave == InitSave /\ [][NextSave]_vars

-----------------------------------------------------------------------------
(* Layered trees: a user file over a system file and a fallback, read and  *)
(* written through cursors, groups and arrays.                             *)

MaxStepsTree == 4

\* the user file: {a: 1, g: {k: 1}, l: [1]} or {a: null string, g: 2}
UserTrees ==
    {VMap(("a" :> VValue(1)) @@ ("g" :> M1("k", VValue(1))) @@ ("l" :> VList(<<VValue(1)>>))),
     M2("a", VValue(0 - 1), "g", VValue(2))}

\* the system file: {a: 2, b: 2, g: {k: 2, h: 2}}
SystemTree ==
    VMap(("a" :> VValue(2)) @@ ("b" :> VValue(2))
         @@ ("g" :> M2("k", VValue(2), "h", VValue(2))))

Fallback == M2("x", VValue(2), "g", M1("h", VValue(1)))

TreeFiles ==
    {[f \in FileNames |->
         IF f = <<"user", "p">> THEN u
         ELSE IF f = <<"system", "p">> THEN y
         ELSE NoFile] :
       u \in {File(t, wr) : t \in UserTrees, wr \in BOOLEAN},
       y \in {File(SystemTree, FALSE), NoFile}}

InitTree == \E fs \in TreeFiles : Start(fs, [limit |-> MaxStepsTree, script |-> <<>>])

Reads == {<<<<"a">>, VNull>>, <<<<"b">>, VValue(1)>>, <<<<"x">>, VNull>>,
          <<<<"g", "k">>, VNull>>, <<<<"g", "", "h">>, VValue(1)>>}

Writes == {<<<<"a">>, VValue(2)>>, <<<<"g", "k">>, VValue(0 - 1)>>}

NextTree ==
    \/ \E fb \in {<<>>, <<Fallback>>} :
          Len(cursors) < MaxConfigs - 1 /\ NewConfig(<<"p">>, fb)
    \/ \E c \in Cursors, r \in Reads : Value(c, r[1], r[2])
    \/ \E c \in Cursors, x \in Writes : SetValue(c, x[1], x[2])
    \/ \E c \in Cursors : SetValueBack(c)
    \/ \E c \in Cursors : RemoveName(c, "a")
    \/ \E c \in Cursors : RemoveIndex(c, 0)
    \/ \E c \in Cursors : BeginGroup(c, <<"g">>)
    \/ \E c \in Cursors : EndGroup(c)
    \/ \E c \in Cursors : BeginArray(c, <<"l">>)
    \/ \E c \in Cursors, i \in {0, 1} : SetArrayIndex(c, i)
    \/ \E c \in Cursors : EndArray(c)
    \/ \E c \in Cursors : ArraySize(c)
    \/ \E c \in Cursors : Len(cursors) < MaxConfigs /\ Group(c, <<"g">>)
    \/ \E c \in Cursors : Len(cursors) < MaxConfigs /\ ArrayElement(c, 0)

SpecTree == InitTree /\ [][NextTree]_vars

\* the segments a key is resolved through
KeyNames(key) ==
    IF HasSlash(key) THEN parseNames(KeyPrefix(key)) \o <<KeyLeaf(key)>> ELSE key

RECURSIVE TreeAt(_, _, _)

\* the tree value found in `tree` under names[i..], Null when there is none
TreeAt(tree, names, i) ==
    IF i > Len(names) THEN tree
    ELSE IF tree.t = "Map" /\ names[i] \in DOMAIN tree.m
    THEN TreeAt(tree.m[names[i]], names, i + 1)
    ELSE VNull

RECURSIVE LayeredByNode(_, _, _, _)

\* the value of the first layer that has a non-Null node under names
LayeredByNode(layers, names, i, def) ==
    IF i > Len(layers) THEN def
    ELSE IF TreeAt(layers[i], names, 1) # VNull THEN TreeAt(layers[i], names, 1)
    ELSE LayeredByNode(layers, names, i + 1, def)

RECURSIVE LayeredByValue(_, _, _, _)

\* the value of the first layer whose value under names is not null
LayeredByValue(layers, names, i, def) ==
    IF i > Len(layers) THEN def
    ELSE IF ~VariantIsNull(TreeAt(layers[i], names, 1)) THEN TreeAt(layers[i], names, 1)
    ELSE LayeredByValue(layers, names, i + 1, def)

C6_ReadOnlyKept ==
    [][\A n \in 1..Len(heap) :
          (heap[n].readOnly /\ n <= Len(heap')) => toVariant(heap', n) = toVariant(heap, n)]_vars

\* C7: setValue(k, value(k)) sets the dirty bit of no Source that was clean.
C7_WriteBackKeepsClean ==
    (last.op = "setValue" /\ last.ok /\ last.pre.back) => DirtySources \subseteq last.pre.dirty

\* the number of backend.save calls for source s after the first `from` calls
Saves(s, from) == Cardinality({i \in (from + 1)..Len(saved) : saved[i] = s})

Pending(s) == Cardinality({i \in 1..Len(queue) : queue[i] = s})

\* C1: when an event-loop turn completes, every Source that received one or
\* more pairs of a value-changing setValue and sync() since the previous turn
\* has had exactly one backend.save since that previous turn.
C1_CoalescedSave ==
    (last.op = "turn" /\ last.ok) =>
        \A s \in Range(last.pre.pairs) : Saves(s, last.pre.base) = 1

\* a turn after two setValue + sync pairs on one Source
C1_Witness ==
    /\ last.op = "turn" /\ last.ok
    /\ \E i, j \in 1..Len(last.pre.pairs) : i # j /\ last.pre.pairs[i] = last.pre.pairs[j]

\* C2: when sync() returns after a value-changing setValue on the same
\* file-backed Cursor, a save event for the Cursor's first Source is in the
\* queue; an event-loop turn calls backend.save once per queued event, in the
\* order the events were posted, and leaves the queue empty.
C2_PostedAndFifo ==
    /\ (last.op = "sync" /\ last.ok /\ last.pre.change) => Pending(last.pre.source) >= 1
    /\ (last.op = "turn" /\ last.ok) =>
          /\ SubSeq(saved, last.pre.saved + 1, Len(saved)) = last.pre.queue
          /\ queue = <<>>

\* a turn that delivered the events of two different Sources, the second
\* Source posted after the first
C2_Witness ==
    /\ last.op = "turn" /\ last.ok
    /\ Len(last.pre.queue) = 2 /\ last.pre.queue[1] # last.pre.queue[2]
    /\ last.pre.pairs = last.pre.queue

\* C3: every Source has at most one save event pending, and exactly one
\* if and only if its isAtLoop bit is set.
C3_QueuedOnce ==
    \A s \in 1..Len(sources) :
        /\ Pending(s) <= 1
        /\ (Pending(s) = 1) <=> sources[s].isAtLoop

\* sync() has returned on a dirty Source that was already queued
C3_Witness ==
    /\ last.op = "sync" /\ last.ok /\ last.pre.queued /\ last.pre.change
    /\ Pending(last.pre.source) = 1

\* C4: at process exit, every Source that was dirty when the shutdown began
\* has had exactly one backend.save since then.
C4_SavedAtExit ==
    phase = "exited" => \A s \in hist.dirty : Saves(s, hist.shutdownBase) = 1

\* C16 as stated: a save event dispatched for a Source whose dirty bit is
\* clear calls no backend.save.
C16_CleanEventNoSave ==
    (last.op = "turn" /\ last.ok) =>
        \A s \in Range(last.pre.queue) : s \notin last.pre.dirty => Saves(s, last.pre.saved) = 0

\* C16 amended: a Source with a queued save event is alive (the event holds
\* it); a dispatched save event calls backend.save for its Source exactly
\* once, whether the dirty bit is set or clear, and leaves the Source clean
\* and not queued.
C16_EventSavesOnce ==
    /\ \A s \in Range(queue) : sources[s].alive
    /\ (last.op = "turn" /\ last.ok) =>
          \A s \in Range(last.pre.queue) :
              /\ Saves(s, last.pre.saved) = 1
              /\ ~sources[s].dirty /\ ~sources[s].isAtLoop

\* the event of a Source that sync() had left clean was dispatched and saved;
\* the event was the last owner of the Source, which was then destroyed
C16_Witness ==
    /\ last.op = "turn" /\ last.ok
    /\ \E s \in Range(last.pre.queue) :
          /\ s \notin last.pre.dirty
          /\ Saves(s, last.pre.saved) = 1
          /\ ~sources[s].alive

\* the last event in the queue q for the file of the event at position i
LastForFile(q, i) ==
    \A j \in (i + 1)..Len(q) : sources[q[j]].fileName # sources[q[i]].fileName

\* C22: a value-changing setValue is in the in-memory tree of the Cursor's
\* first Source at once, queued or not; when the save events are dispatched
\* the tree written for each Source is its in-memory tree at dispatch time,
\* so the file holds the tree of the event dispatched last for it, and every
\* dispatched Source is left neither dirty nor queued.
C22_SavesTreeAtDispatch ==
    /\ (last.op = "setValue" /\ last.ok /\ last.res = TRUE) =>
          toVariant(heap, sources[FirstSource(last.c)].data).m["a"] = last.arg
    /\ (last.op = "turn" /\ last.ok) =>
          \A i \in 1..Len(last.pre.queue) :
              /\ LastForFile(last.pre.queue, i) =>
                    files[sources[last.pre.queue[i]].fileName].content = last.pre.trees[i]
              /\ ~sources[last.pre.queue[i]].dirty
              /\ ~sources[last.pre.queue[i]].isAtLoop
              /\ last.pre.queue[i] \notin Range(queue)

\* a turn dispatched the event of a Source that was changed again after the
\* event was posted, and the file now holds a tree other than the loaded one
C22_Witness ==
    /\ last.op = "turn" /\ last.ok
    /\ \E i \in 1..Len(last.pre.queue) :
          /\ last.pre.queue[i] \in last.pre.dirty
          /\ last.pre.trees[i] = M1("a", VValue(2))
          /\ files[sources[last.pre.queue[i]].fileName].content = M1("a", VValue(2))

-----------------------------------------------------------------------------
(* The source cache: a user file and a read-only system file, opened       *)
(* repeatedly while the cache timer fires, other programs rewrite the      *)
(* files and the cursors write and save.                                   *)

MaxStepsOpen == 5

OpenFiles ==
    [f \in FileNames |->
        IF f = <<"user", "p">> THEN File(M1("a", VValue(1)), TRUE)
        ELSE IF f = <<"system", "p">> THEN File(M1("b", VValue(1)), FALSE)
        ELSE NoFile]

InitOpen == Start(OpenFiles, [limit |-> MaxStepsOpen, script |-> <<>>])

NextOpen ==
    \/ Len(cursors) < MaxConfigs /\ NewConfig(<<"p">>, <<>>)
    \/ \E f \in FileNames : Timer(f)
    \/ \E f \in FileNames : Touch(f, M1("b", VValue(2)))
    \/ \E c \in Cursors : SetValue(c, <<"a">>, VValue(2))
    \/ \E c \in Cursors : Sync(c)
    \/ \E c \in Cursors : Drop(c)
    \/ Turn

SpecOpen == InitOpen /\ [][NextOpen]_vars

\* the files Config(paths) opens: each path in the user and the system directory
OpenedFiles(paths) == {ResolveFileName(paths[i], sd) : i \in 1..Len(paths), sd \in BOOLEAN}

\* the files loaded by the operation performed last
LoadedNow == {loaded[i] : i \in (last.pre.loaded + 1)..Len(loaded)}

-----------------------------------------------------------------------------
(* Scripted clients: the program is a fixed sequence of calls, drawn with  *)
(* its inputs in the initial state; step n performs the n-th call.         *)

Call(op, c, key, arg) == [op |-> op, c |-> c, key |-> key, arg |-> arg]

Scripted(script) == [limit |-> Len(script), script |-> script]

\* the call the script makes next
NextCall == client.script[steps + 1]

Calls(op) == steps < Len(client.script) /\ NextCall.op = op

-----------------------------------------------------------------------------
(* Group round trip: beginGroup(prefix); setValue(leaf, v); endGroup();    *)
(* value(path), on file and in-memory cursors, at the root, inside a       *)
(* group and inside an array.                                              *)

GroupPaths == {<<"g", "k">>, <<"g", "", "h", "k">>, <<"a", "k">>, <<"n", "m", "k">>}

GroupValues ==
    {VValue(0), VValue(1), VValue(0 - 1), M1("y", VValue(2)), VList(<<VValue(1), VNull>>)}

GroupOpens ==
    {<<Call("newConfig", 0, <<"p">>, <<>>)>>,
     <<Call("newMemoryConfig", 0, <<>>, M1("g", VValue(1)))>>}

GroupPreludes ==
    {<<>>,
     <<Call("beginGroup", 1, <<"g">>, 0)>>,
     <<Call("beginArray", 1, <<"l">>, 0)>>,
     <<Call("beginArray", 1, <<"l">>, 0), Call("setArrayIndex", 1, <<>>, 1)>>}

RoundTrip(path, v) ==
    <<Call("beginGroup", 1, KeyPrefix(path), 0), Call("setValue", 1, <<KeyLeaf(path)>>, v),
      Call("endGroup", 1, <<>>, 0), Call("value", 1, path, VNull)>>

GroupFiles ==
    {[f \in FileNames |->
         IF f = <<"user", "p">> THEN u
         ELSE IF f = <<"system", "p">> THEN File(SystemTree, FALSE)
         ELSE NoFile] :
       u \in {File(t, wr) : t \in UserTrees, wr \in BOOLEAN} \cup {NoFile}}

InitGroup ==
    \E fs \in GroupFiles, o \in GroupOpens, pl \in GroupPreludes,
       path \in GroupPaths, v \in GroupValues :
        Start(fs, Scripted(o \o pl \o RoundTrip(path, v)))

NextGroup ==
    \/ Calls("newConfig") /\ NewConfig(NextCall.key, NextCall.arg)
    \/ Calls("newMemoryConfig") /\ NewMemoryConfig(NextCall.arg)
    \/ Calls("beginGroup") /\ BeginGroup(NextCall.c, NextCall.key)
    \/ Calls("beginArray") /\ BeginArray(NextCall.c, NextCall.key)
    \/ Calls("setArrayIndex") /\ SetArrayIndex(NextCall.c, NextCall.arg)
    \/ Calls("setValue") /\ SetValue(NextCall.c, NextCall.key, NextCall.arg)
    \/ Calls("endGroup") /\ EndGroup(NextCall.c)
    \/ Calls("value") /\ Value(NextCall.c, NextCall.key, NextCall.arg)

SpecGroup == InitGroup /\ [][NextGroup]_vars

\* the position in the script of the beginGroup of the round trip
RoundTripAt == Len(client.script) - 3

\* the round trip has started on a cursor whose first atom is a writable Map
\* with a value v that is not null
RoundTripApplies ==
    /\ Len(trail) >= RoundTripAt
    /\ trail[RoundTripAt].pre = [type |-> "Map", readOnly |-> FALSE]
    /\ ~VariantIsNull(client.script[RoundTripAt + 1].arg)

RoundTripDone == Len(trail) = Len(client.script)

-----------------------------------------------------------------------------
(* Array fill and reopen: beginArray("a"); setArrayIndex(i); setValue("x", *)
(* i) for i = 0..k-1; endArray(); a save; a second cursor on the file.     *)

MaxElements == 2

ArrayTrees == {VMap(EmptyMap), M1("a", VList(<<>>)), M1("g", VValue(2))}

ArrayFiles ==
    {[f \in FileNames |-> IF f = <<"user", "p">> THEN u ELSE NoFile] :
       u \in {File(t, TRUE) : t \in ArrayTrees} \cup {NoFile}}

RECURSIVE Fill(_, _)

\* setArrayIndex(i); setValue("x", i) for i = from..k-1
Fill(from, k) ==
    IF from >= k THEN <<>>
    ELSE <<Call("setArrayIndex", 1, <<>>, from), Call("setValue", 1, <<"x">>, VValue(from))>>
         \o Fill(from + 1, k)

\* the save completes through sync() or the destructor, and an event-loop turn
Saves9 ==
    {<<Call("sync", 1, <<>>, 0), Call("turn", 0, <<>>, 0)>>,
     <<Call("drop", 1, <<>>, 0), Call("turn", 0, <<>>, 0)>>}

\* the file is reopened while its Source is cached, or after the cache entry
\* has expired
Reopens ==
    {<<Call("newConfig", 0, <<"p">>, <<>>)>>,
     <<Call("timer", 0, <<"user", "p">>, 0), Call("newConfig", 0, <<"p">>, <<>>)>>}

RECURSIVE Elements(_, _)

\* arrayElement(i).value("x") for i = from..k-1; the elements are cursors 3, 4, ...
Elements(from, k) ==
    IF from >= k THEN <<>>
    ELSE <<Call("arrayElement", 2, <<>>, from), Call("value", 3 + from, <<"x">>, VNull)>>
         \o Elements(from + 1, k)

ArrayScript(k, sv, ro) ==
    <<Call("newConfig", 0, <<"p">>, <<>>), Call("beginArray", 1, <<"a">>, 0)>>
    \o Fill(0, k) \o <<Call("endArray", 1, <<>>, 0)>> \o sv \o ro
    \o <<Call("beginArray", 2, <<"a">>, 0)>> \o Elements(0, k)

InitArray ==
    \E fs \in ArrayFiles, k \in 1..MaxElements, sv \in Saves9, ro \in Reopens :
        Start(fs, [limit |-> Len(ArrayScript(k, sv, ro)), script |-> ArrayScript(k, sv, ro),
                   k |-> k])

NextArray ==
    \/ Calls("newConfig") /\ NewConfig(NextCall.key, NextCall.arg)
    \/ Calls("beginArray") /\ BeginArray(NextCall.c, NextCall.key)
    \/ Calls("setArrayIndex") /\ SetArrayIndex(NextCall.c, NextCall.arg)
    \/ Calls("setValue") /\ SetValue(NextCall.c, NextCall.key, NextCall.arg)
    \/ Calls("endArray") /\ EndArray(NextCall.c)
    \/ Calls("sync") /\ Sync(NextCall.c)
    \/ Calls("drop") /\ Drop(NextCall.c)
    \/ Calls("turn") /\ Turn
    \/ Calls("timer") /\ Timer(NextCall.key)
    \/ Calls("arrayElement") /\ ArrayElement(NextCall.c, NextCall.arg)
    \/ Calls("value") /\ Value(NextCall.c, NextCall.key, NextCall.arg)

SpecArray == InitArray /\ [][NextArray]_vars

\* the calls on the reopened cursor are the last 1 + 2k of the script
OnReopened(n) == n > Len(client.script) - 2 * client.k - 1

\* C9: the array is filled through k elements and saved; every call of the
\* script completes, beginArray("a") on the reopened cursor returns k, and
\* arrayElement(i).value("x") returns i for every i < k.
C9_ArrayReopened ==
    \A n \in 1..Len(trail) :
        /\ trail[n].ok
        /\ (OnReopened(n) /\ trail[n].op = "beginArray") => trail[n].res = client.k
        /\ (OnReopened(n) /\ trail[n].op = "value") => trail[n].res = VValue(trail[n - 1].arg)

\* two or more elements were written and saved, the file was loaded again
\* for the reopened cursor, and the last element has been read from it
C9_Witness ==
    /\ Len(trail) = Len(client.script) /\ client.k >= 2
    /\ Len(loaded) >= 2 /\ saved # <<>>
    /\ last.op = "value" /\ last.res = VValue(client.k - 1)

-----------------------------------------------------------------------------
(* Group cursors: c2 = c1.group("g") shares the atoms of c1; both write    *)
(* and read, and c2 is dropped.                                            *)

MaxStepsShare == 4

ShareValues == {VValue(1), VValue(2), VValue(0 - 1), M1("y", VValue(2))}

\* the files of the group round trip, and a user file without "g" alone
ShareFiles ==
    GroupFiles \cup
    {[f \in FileNames |-> IF f = <<"user", "p">> THEN File(M1("a", VValue(1)), wr) ELSE NoFile] :
       wr \in BOOLEAN}

InitShare == \E fs \in ShareFiles : Start(fs, [limit |-> MaxStepsShare, script |-> <<>>])

NextShare ==
    \/ Len(cursors) < MaxConfigs - 1 /\ NewConfig(<<"p">>, <<>>)
    \/ Len(cursors) < MaxConfigs - 1 /\ NewMemoryConfig(M1("g", VValue(1)))
    \/ \E c \in Cursors : Len(cursors) < MaxConfigs /\ Group(c, <<"g">>)
    \/ \E c \in Cursors, v \in ShareValues : SetValue(c, <<"k">>, v)
    \/ \E c \in Cursors, v \in ShareValues : SetValue(c, <<"g", "k">>, v)
    \/ \E c \in Cursors : Value(c, <<"g", "k">>, VNull)
    \/ \E c \in Cursors : Drop(c)

SpecShare == InitShare /\ [][NextShare]_vars

\* the cursors made by group() from cursor c1 that the client still has
GroupsOf(c1) == {c2 \in Cursors : Usable(c2) /\ cursors[c2].memoryGuard = c1}

\* what cfg.value(key) returns in the current state
Sees(c, key) == value(W, c, key, VNull).res

\* the first atom of cursor c is a Map that can be written
WritableMap(c) == FirstAtom(c) = [type |-> "Map", readOnly |-> FALSE]

\* c1 can write v to g/k and read it back
WritesThrough(c1, v) ==
    /\ ~setValue(W, c1, <<"g", "k">>, v).failed
    /\ value(setValue(W, c1, <<"g", "k">>, v), c1, <<"g", "k">>, VNull).res = v

\* dropping the group cursor left the trees of c1 as they were, and c1 still
\* writes below g when its first atom is a writable Map
AfterDrop ==
    (last.op = "drop" /\ last.ok /\ last.pre.memoryGuard # 0 /\ Usable(last.pre.memoryGuard)) =>
        /\ Layers(last.pre.memoryGuard) = last.pre.guardLayers
        /\ WritableMap(last.pre.memoryGuard) => WritesThrough(last.pre.memoryGuard, VValue(2))

-----------------------------------------------------------------------------
(* Array removal: beginArray("l"); remove(i); endArray() on a writable     *)
(* user file over a system file, from the list frame or an element frame.  *)

MaxArrayLen == 3

\* element j of the arrays on disk: scalars and maps in turn
Element(j) == IF j % 2 = 1 THEN VValue(j) ELSE M1("x", VValue(j))

ArrayOf(n) == VList([j \in 1..n |-> Element(j)])

RemoveFiles ==
    {[f \in FileNames |->
         IF f = <<"user", "p">> THEN File(u, TRUE)
         ELSE IF f = <<"system", "p">> THEN y
         ELSE NoFile] :
       u \in {M1("l", ArrayOf(n)) : n \in 0..MaxArrayLen} \cup {M1("a", VValue(1))},
       y \in {File(M1("l", ArrayOf(2)), FALSE), NoFile}}

\* the cursor is on the list frame, or on the frame of an element
RemovePreludes ==
    {<<>>} \cup {<<Call("setArrayIndex", 1, <<>>, j)>> : j \in 0..1}

RemoveScript(pl, i) ==
    <<Call("newConfig", 0, <<"p">>, <<>>), Call("beginArray", 1, <<"l">>, 0)>>
    \o pl \o <<Call("removeIndex", 1, <<>>, i), Call("endArray", 1, <<>>, 0)>>

InitRemove ==
    \E fs \in RemoveFiles, pl \in RemovePreludes, i \in 0..MaxArrayLen :
        Start(fs, Scripted(RemoveScript(pl, i)))

NextRemove ==
    \/ Calls("newConfig") /\ NewConfig(NextCall.key, NextCall.arg)
    \/ Calls("beginArray") /\ BeginArray(NextCall.c, NextCall.key)
    \/ Calls("setArrayIndex") /\ SetArrayIndex(NextCall.c, NextCall.arg)
    \/ Calls("removeIndex") /\ RemoveIndex(NextCall.c, NextCall.arg)
    \/ Calls("endArray") /\ EndArray(NextCall.c)

SpecRemove == InitRemove /\ [][NextRemove]_vars

\* the array "l" of the first Source of cursor 1, as a sequence of trees
ArrayNow == toVariant(heap, sources[cursors[1].sources[1]].data).m["l"].l

\* the array remove(i) found, and the index i
ArrayBefore == trail[Len(trail) - 1].pre.array.l

Removed == trail[Len(trail) - 1].arg

\* C12: after beginArray(name); remove(i); endArray() on a writable array of
\* n elements, with i < n the array has n-1 elements, those before i
\* unchanged and those after i moved down by one, and the first Source is
\* dirty; with i >= n the array and the dirty bits are as they were.
C12_RemoveShifts ==
    /\ \A n \in 1..Len(trail) : trail[n].ok
    /\ (Len(trail) = Len(client.script) /\ last.op = "endArray") =>
        /\ Stack(1) = trail[2].stack
        /\ IF Removed < Len(ArrayBefore)
           THEN /\ Len(ArrayNow) = Len(ArrayBefore) - 1
                /\ \A j \in 1..Len(ArrayNow) :
                      ArrayNow[j] = IF j <= Removed THEN ArrayBefore[j] ELSE ArrayBefore[j + 1]
                /\ sources[cursors[1].sources[1]].dirty
           ELSE /\ ArrayNow = ArrayBefore
                /\ DirtySources = trail[Len(trail) - 1].pre.dirty

\* the middle element of three was removed from the frame of an element
C12_Witness ==
    /\ Len(trail) = Len(client.script) /\ last.op = "endArray" /\ last.ok
    /\ Len(client.script) = 5
    /\ Len(ArrayBefore) = 3 /\ Removed = 1
    /\ ArrayNow = <<ArrayBefore[1], ArrayBefore[3]>>

-----------------------------------------------------------------------------
(* The read-only flag of a root: user and system files that are missing,   *)
(* write-protected or writable, opened while the cache changes.            *)

MaxStepsRoot == 4

RootFiles ==
    {[f \in FileNames |->
         IF f = <<"user", "p">> THEN u
         ELSE IF f = <<"system", "p">> THEN y
         ELSE NoFile] :
       u \in {File(M1("a", VValue(1)), wr) : wr \in BOOLEAN} \cup {NoFile},
       y \in {File(M1("b", VValue(1)), wr) : wr \in BOOLEAN} \cup {NoFile}}

InitRoot == \E fs \in RootFiles : Start(fs, [limit |-> MaxStepsRoot, script |-> <<>>])

SpecRoot == InitRoot /\ [][NextOpen]_vars

\* the Sources made by the operation performed last
OpenedNow == (last.pre.sources + 1)..Len(sources)

\* C13: the root of a Source returned by open is read-only if and only if
\* the file existed and was not writable, or the Source was opened in the
\* system directory.
C13_RootReadOnly ==
    (last.op = "newConfig" /\ last.ok) =>
        \A s \in OpenedNow :
            heap[sources[s].data].readOnly <=>
                \/ sources[s].fileName[1] = "system"
                \/ /\ last.pre.files[sources[s].fileName].exists
                   /\ ~last.pre.files[sources[s].fileName].writable

-----------------------------------------------------------------------------
(* Cursors over several files: Config({"p", "q"}) and Config("q") share    *)
(* the Source of q, which is the first Source of one and the second of the *)
(* other.                                                                  *)

MaxStepsMulti == 5

InitMulti == Start(SaveFiles, [limit |-> MaxStepsMulti, script |-> <<>>])

NextMulti ==
    \/ \E ps \in {<<"p", "q">>, <<"q">>} : Len(cursors) < MaxConfigs /\ NewConfig(ps, <<>>)
    \/ \E c \in Cursors, x \in {1, 2} : SetValue(c, <<"a">>, VValue(x))
    \/ \E c \in Cursors : Sync(c)
    \/ \E c \in Cursors : Drop(c)
    \/ Turn

SpecMulti == InitMulti /\ [][NextMulti]_vars

\* the Sources of the cursor that were dirty and not queued before the
\* operation performed last
ToPost == {s \in Range(last.pre.sources) : s \in last.pre.dirty /\ s \notin Range(last.pre.queue)}

\* C14: sync() on a cursor, and the destruction of an original cursor, post a
\* save event for every Source of the cursor that was dirty and not queued,
\* and mark each of them queued.
C14_SyncPostsAll ==
    ((last.op = "sync" /\ last.ok)
        \/ (last.op = "drop" /\ last.ok /\ last.pre.memoryGuard = 0 /\ ~cursors[last.c].alive)) =>
        \A s \in ToPost : s \in Range(queue) /\ sources[s].isAtLoop

-----------------------------------------------------------------------------
(* Memory guards: cursors made by group() and arrayElement() from a file   *)
(* cursor, written through and dropped in any order.                       *)

MaxStepsGuard == 5

GuardFiles ==
    [f \in FileNames |->
        IF f = <<"user", "p">>
        THEN File(VMap(("g" :> M1("k", VValue(1))) @@ ("l" :> VList(<<M1("k", VValue(1))>>))), TRUE)
        ELSE NoFile]

InitGuard == Start(GuardFiles, [limit |-> MaxStepsGuard, script |-> <<>>])

NextGuard ==
    \/ Len(cursors) < 1 /\ NewConfig(<<"p">>, <<>>)
    \/ \E c \in Cursors : Len(cursors) <= MaxConfigs /\ Group(c, <<"g">>)
    \/ \E c \in Cursors : BeginArray(c, <<"l">>)
    \/ \E c \in Cursors : Len(cursors) <= MaxConfigs /\ ArrayElement(c, 0)
    \/ \E c \in Cursors : SetValue(c, <<"k">>, VValue(2))
    \/ \E c \in Cursors : Sync(c)
    \/ \E c \in Cursors : Drop(c)
    \/ Turn

SpecGuard == InitGuard /\ [][NextGuard]_vars

\* C15: destroying a cursor that has a memoryGuard calls no sync(): while the
\* original cursor of its chain lives, no event is posted and no dirty bit
\* changes. When the original is destroyed, its first Source, if dirty and
\* not queued, gets a save event. A live cursor's memoryGuard is alive.
C15_GuardedDrop ==
    /\ (last.op = "drop" /\ last.ok /\ last.pre.memoryGuard # 0
           /\ cursors[last.pre.original].alive) =>
          queue = last.pre.queue /\ DirtySources = last.pre.dirty
    /\ (last.op = "drop" /\ last.ok /\ ~cursors[last.pre.original].alive) =>
          \A s \in ToPost \cap {last.pre.sources[1]} : s \in Range(queue)
    /\ \A c \in Cursors :
          (cursors[c].alive /\ cursors[c].memoryGuard # 0) =>
              cursors[cursors[c].memoryGuard].alive

\* the original cursor went out of scope first; the drop of the group cursor,
\* through which the Source was dirtied, destroyed both and posted the event
C15_Witness ==
    /\ last.op = "drop" /\ last.ok /\ last.pre.memoryGuard # 0
    /\ ~cursors[last.pre.original].alive
    /\ last.pre.sources[1] \in last.pre.dirty
    /\ last.pre.queue = <<>> /\ queue = <<last.pre.sources[1]>>

-----------------------------------------------------------------------------
(* Array elements as cursors: beginArray("l"), optionally setArrayIndex(j), *)
(* then arrayElement(i), on writable and write-protected files.            *)

MaxIndex == 2

ElementFiles ==
    {[f \in FileNames |-> IF f = <<"user", "p">> THEN u ELSE NoFile] :
       u \in {File(t, wr) : t \in {M1("l", ArrayOf(2)), M1("a", VValue(1))}, wr \in BOOLEAN}}

ElementScript(pl, i) ==
    <<Call("newConfig", 0, <<"p">>, <<>>), Call("beginArray", 1, <<"l">>, 0)>>
    \o pl \o <<Call("arrayElement", 1, <<>>, i)>>

InitElement ==
    \E fs \in ElementFiles, pl \in RemovePreludes, i \in 0..MaxIndex :
        Start(fs, Scripted(ElementScript(pl, i)))

NextElement ==
    \/ Calls("newConfig") /\ NewConfig(NextCall.key, NextCall.arg)
    \/ Calls("beginArray") /\ BeginArray(NextCall.c, NextCall.key)
    \/ Calls("setArrayIndex") /\ SetArrayIndex(NextCall.c, NextCall.arg)
    \/ Calls("arrayElement") /\ ArrayElement(NextCall.c, NextCall.arg)

SpecElement == InitElement /\ [][NextElement]_vars

\* the frame of the list in a level stack whose top may be an element
ListFrame(stack) == IF stack[1].arrayElement THEN stack[2] ELSE stack[1]

\* the arrayElement(i) of the script has returned
ElementReturned == Len(trail) = Len(client.script) /\ last.op = "arrayElement"

\* C17: from the list frame after beginArray or from an element frame after
\* setArrayIndex(j), arrayElement(i) completes, returns a cursor whose
\* current frame is element i of the array with the arrayElement flag set,
\* and leaves the level stack of the calling cursor as it was; also when
\* every layer is read-only and the array is missing.
C17_ArrayElement ==
    /\ \A n \in 1..Len(trail) : trail[n].op = "arrayElement" => trail[n].ok
    /\ ElementReturned =>
          /\ Stack(1) = last.stack
          /\ Stack(last.res)[1].arrayElement
          /\ \A a \in 1..Len(Stack(last.res)[1].atoms) :
                \E b \in 1..Len(ListFrame(last.stack).atoms) :
                    /\ Len(heap[ListFrame(last.stack).atoms[b]].list) > last.arg
                    /\ Stack(last.res)[1].atoms[a] =
                          heap[ListFrame(last.stack).atoms[b]].list[last.arg + 1]

-----------------------------------------------------------------------------
(* Config::childGroups, childKeys, hasChildGroup, hasChildKey over layered *)
(* atoms in which a key is a group in one layer and a value in another.    *)

RECURSIVE IterateAtom(_, _, _, _, _)

\* atom->iterateMap(callback) with the callback of childGroups (groups =
\* TRUE) or childKeys (groups = FALSE): names[i..] are the keys in QMap order
IterateAtom(h, n, names, groups, acc) ==
    IF names = <<>> THEN acc
    ELSE IterateAtom(h, n, Tail(names), groups,
                     IF (h[h[n].map[Head(names)]].type = "Map") = groups
                        /\ Head(names) \notin Range(acc)
                     THEN Append(acc, Head(names)) ELSE acc)

RECURSIVE IterateMap(_, _, _, _)

\* ConfigLevel::iterateMap: every atom that is a Map, in order
IterateMap(h, atoms, groups, acc) ==
    IF atoms = <<>> THEN acc
    ELSE IterateMap(h, Tail(atoms), groups,
                    IF h[Head(atoms)].type = "Map"
                    THEN IterateAtom(h, Head(atoms), SortedKeys(DOMAIN h[Head(atoms)].map),
                                     groups, acc)
                    ELSE acc)

\* Config::childGroups
childGroups(w, c) ==
    IF w.failed THEN w
    ELSE IF Levels(w, c) = <<>> THEN Fail(w)
    ELSE [w EXCEPT !.res = IterateMap(w.heap, Current(w, c).atoms, TRUE, <<>>)]

\* Config::childKeys
childKeys(w, c) ==
    IF w.failed THEN w
    ELSE IF Levels(w, c) = <<>> THEN Fail(w)
    ELSE [w EXCEPT !.res = IterateMap(w.heap, Current(w, c).atoms, FALSE, <<>>)]

\* the callback of hasChildGroup / hasChildKey finds name in some atom
HasChild(h, atoms, name, groups) ==
    \E i \in 1..Len(atoms) :
        /\ h[atoms[i]].type = "Map"
        /\ name \in DOMAIN h[atoms[i]].map
        /\ (h[h[atoms[i]].map[name]].type = "Map") = groups

\* Config::hasChildGroup
hasChildGroup(w, c, name) ==
    IF w.failed THEN w
    ELSE IF Levels(w, c) = <<>> THEN Fail(w)
    ELSE [w EXCEPT !.res = HasChild(w.heap, Current(w, c).atoms, name, TRUE)]

\* Config::hasChildKey
hasChildKey(w, c, name) ==
    IF w.failed THEN w
    ELSE IF Levels(w, c) = <<>> THEN Fail(w)
    ELSE [w EXCEPT !.res = HasChild(w.heap, Current(w, c).atoms, name, FALSE)]

ChildGroups(c) ==
    /\ Running /\ Usable(c)
    /\ Done(childGroups(W, c), "childGroups", c, <<>>, 0, Layers(c))
    /\ Tick /\ UNCHANGED <<phase, hist>>

ChildKeys(c) ==
    /\ Running /\ Usable(c)
    /\ Done(childKeys(W, c), "childKeys", c, <<>>, 0, Layers(c))
    /\ Tick /\ UNCHANGED <<phase, hist>>

HasChildGroup(c, name) ==
    /\ Running /\ Usable(c)
    /\ Done(hasChildGroup(W, c, name), "hasChildGroup", c, <<name>>, 0, Layers(c))
    /\ Tick /\ UNCHANGED <<phase, hist>>

HasChildKey(c, name) ==
    /\ Running /\ Usable(c)
    /\ Done(hasChildKey(W, c, name), "hasChildKey", c, <<name>>, 0, Layers(c))
    /\ Tick /\ UNCHANGED <<phase, hist>>

MaxStepsNames == 3

NamesFiles ==
    {[f \in FileNames |->
         IF f = <<"user", "p">> THEN File(u, TRUE)
         ELSE IF f = <<"system", "p">> THEN y
         ELSE NoFile] :
       u \in {M2("g", M1("k", VValue(1)), "a", VValue(1)),
              M2("g", VValue(1), "a", M1("k", VValue(1)))},
       y \in {File(M2("g", VValue(2), "b", VValue(2)), FALSE),
              File(M2("g", M2("h", VValue(2), "k", M1("x", VValue(2))), "a", VValue(2)), FALSE),
              NoFile}}

InitNames == \E fs \in NamesFiles : Start(fs, [limit |-> MaxStepsNames, script |-> <<>>])

NextNames ==
    \/ Len(cursors) < MaxConfigs - 1 /\ NewConfig(<<"p">>, <<>>)
    \/ \E c \in Cursors : BeginGroup(c, <<"g">>)
    \/ \E c \in Cursors : ChildGroups(c)
    \/ \E c \in Cursors : ChildKeys(c)
    \/ \E c \in Cursors, name \in {"a", "g", "k"} : HasChildGroup(c, name)
    \/ \E c \in Cursors, name \in {"a", "g", "k"} : HasChildKey(c, name)

SpecNames == InitNames /\ [][NextNames]_vars

\* the keys of the layers that are Maps
LayerKeys(layers) ==
    UNION {DOMAIN layers[i].m : i \in {j \in 1..Len(layers) : layers[j].t = "Map"}}

\* the child of the first layer, in atom order, that is a Map and has key k
FirstSeen(layers, k) ==
    layers[CHOOSE i \in 1..Len(layers) :
              /\ layers[i].t = "Map" /\ k \in DOMAIN layers[i].m
              /\ \A j \in 1..(i - 1) : ~(layers[j].t = "Map" /\ k \in DOMAIN layers[j].m)].m[k]

\* some layer has a Map under key k
SomeMap(layers, k) ==
    \E i \in 1..Len(layers) :
        layers[i].t = "Map" /\ k \in DOMAIN layers[i].m /\ layers[i].m[k].t = "Map"

NoKeyTwice(s) == \A i, j \in 1..Len(s) : s[i] = s[j] => i = j

\* C18: childKeys() returns exactly the keys whose first-seen child is not a
\* Map, childGroups() the keys that have a Map child in some atom, neither
\* with a key twice; a key whose first-seen child is a Map is reported by
\* neither childKeys() nor hasChildKey().
C18_ChildNames ==
    /\ (last.op = "childKeys" /\ last.ok) =>
          /\ Range(last.res) = {k \in LayerKeys(last.pre) : FirstSeen(last.pre, k).t # "Map"}
          /\ NoKeyTwice(last.res)
    /\ (last.op = "childGroups" /\ last.ok) =>
          /\ Range(last.res) = {k \in LayerKeys(last.pre) : SomeMap(last.pre, k)}
          /\ NoKeyTwice(last.res)
    /\ (last.op = "hasChildKey" /\ last.ok /\ last.key[1] \in LayerKeys(last.pre)
           /\ FirstSeen(last.pre, last.key[1]).t = "Map") => last.res = FALSE

-----------------------------------------------------------------------------
(* Reads that find nothing: value and rootValue on file and in-memory      *)
(* cursors with a Map or a List root, at the root, in groups and arrays.   *)

\* Config::rootValue(def)
rootValue(w, c, def) ==
    IF w.failed THEN w
    ELSE IF Levels(w, c) = <<>> THEN Fail(w)
    ELSE IF Current(w, c).atoms = <<>> THEN [w EXCEPT !.res = def]
    ELSE [w EXCEPT !.res = IF VariantIsNull(toVariant(w.heap, Current(w, c).atoms[1]))
                            THEN def
                            ELSE toVariant(w.heap, Current(w, c).atoms[1])]

RootValue(c, def) ==
    /\ Running /\ Usable(c)
    /\ Done(rootValue(W, c, def), "rootValue", c, <<>>, def, Layers(c))
    /\ Tick /\ UNCHANGED <<phase, hist>>

MaxStepsRead == 3

ReadFiles ==
    {[f \in FileNames |-> IF f = <<"user", "p">> THEN u ELSE NoFile] :
       u \in {File(VMap(("a" :> VNull) @@ ("g" :> M1("k", VValue(1)))
                        @@ ("l" :> VList(<<VValue(1)>>))), wr) : wr \in BOOLEAN}}

InitRead == \E fs \in ReadFiles : Start(fs, [limit |-> MaxStepsRead, script |-> <<>>])

NextRead ==
    \/ \E fb \in {<<>>, <<Fallback>>} :
          Len(cursors) < MaxConfigs - 1 /\ NewConfig(<<"p">>, fb)
    \/ \E v \in {M1("g", VValue(1)), VList(<<VValue(1)>>)} :
          Len(cursors) < MaxConfigs - 1 /\ NewMemoryConfig(v)
    \/ \E c \in Cursors : BeginGroup(c, <<"g">>)
    \/ \E c \in Cursors : BeginArray(c, <<"l">>)
    \/ \E c \in Cursors, key \in {<<"a">>, <<"b">>, <<"k">>, <<"g", "h">>, <<"l", "k">>} :
          Value(c, key, VValue(0))
    \/ \E c \in Cursors : RootValue(c, VValue(0))

SpecRead == InitRead /\ [][NextRead]_vars

\* no layer has a value for the key
Missing(layers, key) == VariantIsNull(LayeredByValue(layers, KeyNames(key), 1, VNull))

\* C19: value(key, default) and rootValue(default) complete on every
\* cursor, and return default when the key is missing, its node is Null or
\* the level has no atoms.
C19_ReadsNeverFail ==
    /\ last.op \in {"value", "rootValue"} => last.ok
    /\ (last.op = "value" /\ last.ok /\ Missing(last.pre, last.key)) => last.res = last.arg
    /\ (last.op = "rootValue" /\ last.ok /\ last.pre = <<>>) => last.res = last.arg

-----------------------------------------------------------------------------
(* Lower layers: Config({"p", "q"}) over two writable user files; the      *)
(* cursor navigates, reads and writes.                                     *)

MaxStepsLayers == 5

LayersFiles ==
    [f \in FileNames |->
        IF f = <<"user", "p">> THEN File(M1("a", VValue(1)), TRUE)
        ELSE IF f = <<"user", "q">>
        THEN File(M2("b", VValue(1), "l", VList(<<VValue(1)>>)), TRUE)
        ELSE NoFile]

InitLayers == Start(LayersFiles, [limit |-> MaxStepsLayers, script |-> <<>>])

NextLayers ==
    \/ Len(cursors) < MaxConfigs - 1 /\ NewConfig(<<"p", "q">>, <<>>)
    \/ \E c \in Cursors, name \in {<<"g">>, <<"b">>} : BeginGroup(c, name)
    \/ \E c \in Cursors : EndGroup(c)
    \/ \E c \in Cursors : BeginArray(c, <<"l">>)
    \/ \E c \in Cursors : SetArrayIndex(c, 1)
    \/ \E c \in Cursors : Value(c, <<"g", "k">>, VNull)
    \/ \E c \in Cursors : SetValue(c, <<"g", "k">>, VValue(1))

SpecLayers == InitLayers /\ [][NextLayers]_vars

\* C20: no cursor operation changes the tree of an atom other than the
\* first: the Sources after the first of every cursor keep the tree that was
\* loaded from their files.
C20_LowerLayersKept ==
    \A c \in Cursors :
        \A i \in 2..Len(cursors[c].sources) :
            toVariant(heap, sources[cursors[c].sources[i]].data)
                = files[sources[cursors[c].sources[i]].fileName].content

-----------------------------------------------------------------------------
(* Level stacks: a cursor over a file with a group and an array navigates  *)
(* with every stack operation, on itself and on the cursors it hands out.  *)

MaxStepsStack == 4

StackFiles ==
    [f \in FileNames |->
        IF f = <<"user", "p">>
        THEN File(M2("g", M1("k", VValue(1)), "l", ArrayOf(2)), TRUE)
        ELSE NoFile]

InitStack == Start(StackFiles, [limit |-> MaxStepsStack, script |-> <<>>])

NextStack ==
    \/ Len(cursors) < 1 /\ NewConfig(<<"p">>, <<>>)
    \/ \E c \in Cursors : BeginGroup(c, <<"g">>)
    \/ \E c \in Cursors : EndGroup(c)
    \/ \E c \in Cursors : BeginArray(c, <<"l">>)
    \/ \E c \in Cursors, i \in 0..1 : SetArrayIndex(c, i)
    \/ \E c \in Cursors : EndArray(c)
    \/ \E c \in Cursors : RemoveIndex(c, 0)
    \/ \E c \in Cursors : Len(cursors) <= MaxConfigs /\ Group(c, <<"g">>)
    \/ \E c \in Cursors, i \in 0..1 : Len(cursors) <= MaxConfigs /\ ArrayElement(c, i)

SpecStack == InitStack /\ [][NextStack]_vars

\* C21: the level stack of every cursor, the caller's and a returned
\* clone's, holds at least one frame in every state, and no stack operation
\* ends or aborts with a cursor whose stack is empty.
C21_StackNeverEmpty ==
    /\ \A c \in Cursors : cursors[c].levels # <<>>
    /\ last.empty = {}

-----------------------------------------------------------------------------
(* One Source per file, under the save protocol with its cache timer.      *)

\* the Sources held by the cursors that are alive
HeldSources == UNION {Range(cursors[c].sources) : c \in {k \in Cursors : cursors[k].alive}}

\* C23: the cursors never hold two different Sources of one file name: a
\* later open of a path whose Source is still held, also after the cache
\* timer has fired, yields that same Source.
C23_OneSourcePerFile ==
    \A s1, s2 \in HeldSources : sources[s1].fileName = sources[s2].fileName => s1 = s2

-----------------------------------------------------------------------------
(* Reads as pure reads, over the cursors and keys of the reads above.      *)

\* C24: value(key, default) on a file-backed cursor changes no tree: the
\* tree values of the atoms of the cursor's current level are after the call
\* what they were before it; no key or group is inserted and no Scalar or
\* List is replaced by a Map.
C24_ValueIsPureRead ==
    (last.op = "value" /\ last.ok /\ cursors[last.c].sources # <<>>) =>
        Layers(last.c) = last.pre

-----------------------------------------------------------------------------
(* Writes over two files: Config({"p", "q"}) with p writable or            *)
(* write-protected; the cursor enters the group g of q, writes and removes. *)

MaxStepsOwner == 4

OwnerFiles ==
    {[f \in FileNames |->
         IF f = <<"user", "p">> THEN File(M1("a", VValue(1)), wr)
         ELSE IF f = <<"user", "q">> THEN File(M1("g", M1("k", VValue(1))), TRUE)
         ELSE NoFile] : wr \in BOOLEAN}

InitOwner == \E fs \in OwnerFiles : Start(fs, [limit |-> MaxStepsOwner, script |-> <<>>])

NextOwner ==
    \/ Len(cursors) < MaxConfigs - 1 /\ NewConfig(<<"p", "q">>, <<>>)
    \/ \E c \in Cursors : BeginGroup(c, <<"g">>)
    \/ \E c \in Cursors : EndGroup(c)
    \/ \E c \in Cursors, key \in {<<"k">>, <<"a">>}, x \in {1, 2} : SetValue(c, key, VValue(x))
    \/ \E c \in Cursors, name \in {"k", "a"} : RemoveName(c, name)
    \/ \E c \in Cursors : Sync(c)
    \/ Turn

SpecOwner == InitOwner /\ [][NextOwner]_vars

\* C25: when setValue or remove on a file-backed cursor has changed the tree
\* of a Source, that Source is the cursor's first Source and its dirty bit
\* is set.
C25_ChangeMarksOwner ==
    (last.op \in {"setValue", "removeName"} /\ last.ok /\ cursors[last.c].sources # <<>>) =>
        \A s \in 1..Len(last.pre.trees) :
            SourceTrees[s] # last.pre.trees[s] =>
                s = FirstSource(last.c) /\ sources[s].dirty

-----------------------------------------------------------------------------
(* In-memory cursors: Config(map) and Config(list), and a cursor over a    *)
(* write-protected file whose missing group gives a level without atoms.   *)

MaxStepsMemory == 4

MemoryTrees == {M2("a", VValue(1), "l", ArrayOf(2)), ArrayOf(2)}

MemoryFiles ==
    [f \in FileNames |->
        IF f = <<"user", "p">> THEN File(M1("a", VValue(1)), FALSE) ELSE NoFile]

InitMemory == Start(MemoryFiles, [limit |-> MaxStepsMemory, script |-> <<>>])

NextMemory ==
    \/ \E v \in MemoryTrees : Len(cursors) < MaxConfigs - 1 /\ NewMemoryConfig(v)
    \/ Len(cursors) < MaxConfigs - 1 /\ NewConfig(<<"p">>, <<>>)
    \/ \E c \in Cursors : BeginGroup(c, <<"g">>)
    \/ \E c \in Cursors : BeginArray(c, <<"l">>)
    \/ \E c \in Cursors : SetArrayIndex(c, 0)
    \/ \E c \in Cursors, x \in {1, 2} : SetValue(c, <<"a">>, VValue(x))
    \/ \E c \in Cursors, name \in {"a", "b"} : RemoveName(c, name)
    \/ \E c \in Cursors, i \in {0, MaxArrayLen} : RemoveIndex(c, i)

SpecMemory == InitMemory /\ [][NextMemory]_vars

\* the first atom of the level remove works on held the key, or the index
RemoveHits ==
    \/ /\ last.op = "removeName" /\ last.pre.layers # <<>>
       /\ last.pre.layers[1].t = "Map" /\ last.key[1] \in DOMAIN last.pre.layers[1].m
    \/ /\ last.op = "removeIndex" /\ last.pre.atom # 0
       /\ last.pre.array.t = "List" /\ last.arg < Len(last.pre.array.l)

\* C26: on a cursor built from a tree value, remove(key) of an existing key
\* and remove(index) of an index in range complete without failure; on a
\* cursor whose current level has no atoms remove completes and does
\* nothing.
C26_MemoryRemove ==
    last.op \in {"removeName", "removeIndex"} =>
        /\ (cursors[last.c].sources = <<>> /\ RemoveHits) => last.ok
        /\ (last.stack # <<>> /\ last.stack[1].atoms = <<>>) => last.ok
====
